---- MODULE Spec2Model ----
(***************************************************************************)
(* Model of epaper-image-convert: the pixel pipeline of processImage       *)
(* (tone adjustment, palette matching, error-diffusion dithering), the     *)
(* BMP encoder, palette validation and the two entry paths.                *)
(*                                                                         *)
(* Numbers.  JavaScript numbers are IEEE doubles.  The model is integer    *)
(* only, so every real quantity is a fixed-point integer:                  *)
(*   - channel values stored in the image are integers 0..255;             *)
(*   - dither working colours and accumulated errors are counted in units  *)
(*     of 1/ErrUnit of a channel level, each product rounded to the        *)
(*     nearest unit (as a double product is rounded to the nearest double);*)
(*   - processing parameters are counted in hundredths;                    *)
(*   - Lab / XYZ quantities are fixed point, see the ColorSpace section.   *)
(* Sequences are 1-based: slot i of a JavaScript array is element i+1.     *)
(***************************************************************************)
EXTENDS Integers, Sequences, FiniteSets, TLC

\* ------------------------------------------------------------------------
\* Bounds of the model
\* ------------------------------------------------------------------------
MaxW == 3
MaxH == 2
MaxPixels == 4
ErrUnit == 64

\* ------------------------------------------------------------------------
\* Arithmetic helpers (Math.max, Math.min, Math.round, Math.abs)
\* ------------------------------------------------------------------------
Max2(a, b) == IF a >= b THEN a ELSE b
Min2(a, b) == IF a <= b THEN a ELSE b
Abs(a) == IF a < 0 THEN -a ELSE a

\* Math.round(num/den) for den > 0: the nearest integer, halves towards +Infinity.
MathRound(num, den) == (2 * num + den) \div (2 * den)

\* A product or quotient rounded to the nearest fixed-point unit.
RoundDiv(num, den) == (2 * num + den) \div (2 * den)

\* ------------------------------------------------------------------------
\* Palettes (palettes.js)
\* ------------------------------------------------------------------------
Roles == <<"black", "white", "yellow", "red", "blue", "green">>

RGB(r, g, b) == [r |-> r, g |-> g, b |-> b]

SPECTRA6 ==
  [theoretical |->
     [black  |-> RGB(0, 0, 0),
      white  |-> RGB(255, 255, 255),
      yellow |-> RGB(255, 255, 0),
      red    |-> RGB(255, 0, 0),
      blue   |-> RGB(0, 0, 255),
      green  |-> RGB(0, 255, 0)],
   perceived |->
     [black  |-> RGB(2, 2, 2),
      white  |-> RGB(190, 200, 200),
      yellow |-> RGB(205, 202, 0),
      red    |-> RGB(135, 19, 0),
      blue   |-> RGB(5, 64, 158),
      green  |-> RGB(39, 102, 60)]]

\* A second well-formed pair, as a caller may pass to processImage: its
\* theoretical entries differ from (0,0,0) everywhere and two perceived
\* entries are equidistant from mid grey.
CUSTOM_PALETTE ==
  [theoretical |->
     [black  |-> RGB(10, 10, 10),
      white  |-> RGB(250, 250, 250),
      yellow |-> RGB(240, 230, 20),
      red    |-> RGB(230, 20, 30),
      blue   |-> RGB(20, 30, 220),
      green  |-> RGB(30, 210, 40)],
   perceived |->
     [black  |-> RGB(28, 28, 28),
      white  |-> RGB(228, 228, 228),
      yellow |-> RGB(200, 190, 40),
      red    |-> RGB(150, 40, 40),
      blue   |-> RGB(40, 60, 150),
      green  |-> RGB(50, 120, 70)]]

Palettes == {SPECTRA6, CUSTOM_PALETTE}

\* ------------------------------------------------------------------------
\* paletteToArray (processor)
\* ------------------------------------------------------------------------
ReservedEntry == <<0, 0, 0>>

PaletteToArrayReservedFirst(palette) ==
  << ReservedEntry,
     <<palette.black.r, palette.black.g, palette.black.b>>,
     <<palette.white.r, palette.white.g, palette.white.b>>,
     <<palette.yellow.r, palette.yellow.g, palette.yellow.b>>,
     <<palette.red.r, palette.red.g, palette.red.b>>,
     <<palette.blue.r, palette.blue.g, palette.blue.b>>,
     <<palette.green.r, palette.green.g, palette.green.b>> >>

PaletteToArray(palette) ==
  << <<palette.black.r, palette.black.g, palette.black.b>>,
     <<palette.white.r, palette.white.g, palette.white.b>>,
     <<palette.yellow.r, palette.yellow.g, palette.yellow.b>>,
     <<palette.red.r, palette.red.g, palette.red.b>>,
     ReservedEntry,
     <<palette.blue.r, palette.blue.g, palette.blue.b>>,
     <<palette.green.r, palette.green.g, palette.green.b>> >>

\* ------------------------------------------------------------------------
\* ColorSpace (processor: rgbToXyz, xyzToLab, labToXyz, xyzToRgb, deltaE)
\*
\* Reals are fixed point with FP units to 1.  The two gamma curves, which the
\* code evaluates with Math.pow(., 2.4) and Math.pow(., 1/2.4), are tabulated
\* from those formulas: SRGB_TO_LINEAR[c+1] is the linear value of channel
\* level c, and LINEAR_TO_SRGB_STEPS[c] is the least linear value r for which
\* Math.max(0, Math.min(255, Math.round(encode(r) * 255))) is at least c.
\* ------------------------------------------------------------------------
FP == 1000 * 1000

\* a * b in fixed point.
MulFP(a, b) ==
  LET ah == a \div 1000
      al == a % 1000
      bh == b \div 1000
      bl == b % 1000
  IN ah * bh + (ah * bl + al * bh) \div 1000 + (al * bl) \div FP

\* a / (d3 / 1000) in fixed point, d3 > 0.
DivBy(a, d3) ==
  LET q == a \div d3
      r == a % d3
  IN q * 1000 + (r * 1000) \div d3

RECURSIVE ICbrtSearch(_, _, _)
ICbrtSearch(lo, hi, n) ==
  IF hi - lo <= 1 THEN lo
  ELSE LET mid == (lo + hi) \div 2
       IN IF mid * mid * mid <= n THEN ICbrtSearch(mid, hi, n)
          ELSE ICbrtSearch(lo, mid, n)

\* Math.pow(t, 1/3) for 0 <= t < 2.14: the integer cube root of t scaled by
\* 1000, refined linearly between consecutive cubes.
Cbrt(t) ==
  LET n == t * 1000
      k == ICbrtSearch(0, 1291, n)
  IN k * 1000 + (((n - k * k * k) * 500) \div (3 * k * k + 3 * k + 1)) * 2

SRGB_TO_LINEAR ==
  << 0, 304, 607, 911, 1214, 1518, 1821, 2125, 2428, 2732, 3035, 3347,
     3677, 4025, 4391, 4777, 5182, 5605, 6049, 6512, 6995, 7499, 8023, 8568,
     9134, 9721, 10330, 10960, 11612, 12286, 12983, 13702, 14444, 15209, 15996, 16807,
     17642, 18500, 19382, 20289, 21219, 22174, 23153, 24158, 25187, 26241, 27321, 28426,
     29557, 30713, 31896, 33105, 34340, 35601, 36889, 38204, 39546, 40915, 42311, 43735,
     45186, 46665, 48172, 49707, 51269, 52861, 54480, 56128, 57805, 59511, 61246, 63010,
     64803, 66626, 68478, 70360, 72272, 74214, 76185, 78187, 80220, 82283, 84376, 86500,
     88656, 90842, 93059, 95307, 97587, 99899, 102242, 104616, 107023, 109462, 111932, 114435,
     116971, 119538, 122139, 124772, 127438, 130136, 132868, 135633, 138432, 141263, 144128, 147027,
     149960, 152926, 155926, 158961, 162029, 165132, 168269, 171441, 174647, 177888, 181164, 184475,
     187821, 191202, 194618, 198069, 201556, 205079, 208637, 212231, 215861, 219526, 223228, 226966,
     230740, 234551, 238398, 242281, 246201, 250158, 254152, 258183, 262251, 266356, 270498, 274677,
     278894, 283149, 287441, 291771, 296138, 300544, 304987, 309469, 313989, 318547, 323143, 327778,
     332452, 337164, 341914, 346704, 351533, 356400, 361307, 366253, 371238, 376262, 381326, 386429,
     391572, 396755, 401978, 407240, 412543, 417885, 423268, 428690, 434154, 439657, 445201, 450786,
     456411, 462077, 467784, 473531, 479320, 485150, 491021, 496933, 502886, 508881, 514918, 520996,
     527115, 533276, 539479, 545724, 552011, 558340, 564712, 571125, 577580, 584078, 590619, 597202,
     603827, 610496, 617207, 623960, 630757, 637597, 644480, 651406, 658375, 665387, 672443, 679542,
     686685, 693872, 701102, 708376, 715694, 723055, 730461, 737910, 745404, 752942, 760525, 768151,
     775822, 783538, 791298, 799103, 806952, 814847, 822786, 830770, 838799, 846873, 854993, 863157,
     871367, 879622, 887923, 896269, 904661, 913099, 921582, 930111, 938686, 947307, 955973, 964686,
     973445, 982251, 991102, 1000000 >>

\* The linear value of a channel value given in 1/ErrUnit levels (the dither
\* working colour is fractional); between two levels the curve is interpolated.
SrgbToLinear(cU) ==
  LET i == cU \div ErrUnit
      f == cU % ErrUnit
  IN IF f = 0 THEN SRGB_TO_LINEAR[i + 1]
     ELSE SRGB_TO_LINEAR[i + 1]
          + ((SRGB_TO_LINEAR[i + 2] - SRGB_TO_LINEAR[i + 1]) * f) \div ErrUnit

RgbToXyz(rU, gU, bU) ==
  LET r == SrgbToLinear(rU)
      g == SrgbToLinear(gU)
      b == SrgbToLinear(bU)
      x == MulFP(r, 412456) + MulFP(g, 357576) + MulFP(b, 180438)
      y == MulFP(r, 212673) + MulFP(g, 715152) + MulFP(b, 72175)
      z == MulFP(r, 19334) + MulFP(g, 119192) + MulFP(b, 950304)
  IN <<x * 100, y * 100, z * 100>>

\* t > 0.008856 ? Math.pow(t, 1/3) : 7.787 * t + 16/116
LabF(t) == IF t > 8856 THEN Cbrt(t) ELSE MulFP(7787000, t) + 137931

XyzToLab(X, Y, Z) ==
  LET x == LabF(DivBy(X, 95047))
      y == LabF(Y \div 100)
      z == LabF(DivBy(Z, 108883))
  IN <<116 * y - 16 * FP, 500 * (x - y), 200 * (y - z)>>

\* rgbToLab of channel values given in 1/ErrUnit levels; the result is
\* <<L, a, b>> in fixed point.
RgbToLabU(rU, gU, bU) ==
  LET xyz == RgbToXyz(rU, gU, bU)
  IN XyzToLab(xyz[1], xyz[2], xyz[3])

RgbToLab(r, g, b) == RgbToLabU(r * ErrUnit, g * ErrUnit, b * ErrUnit)

LabFInvCubeOnly(v) == MulFP(MulFP(v, v), v)

\* v > 0.206897 ? Math.pow(v, 3) : (v - 16/116) / 7.787
LabFInv(v) ==
  IF v > 206897 THEN MulFP(MulFP(v, v), v) ELSE DivBy(v - 137931, 7787)

LabToXyz(L, a, b) ==
  LET y == (L + 16 * FP) \div 116
      x == a \div 500 + y
      z == y - b \div 200
  IN <<MulFP(LabFInv(x), 95047000), LabFInv(y) * 100,
       MulFP(LabFInv(z), 108883000)>>

LINEAR_TO_SRGB_STEPS ==
  << 152, 456, 759, 1063, 1366, 1670, 1973, 2277, 2580, 2884, 3189, 3510,
     3849, 4206, 4582, 4977, 5392, 5825, 6278, 6752, 7245, 7759, 8294, 8849,
     9425, 10023, 10643, 11284, 11947, 12632, 13340, 14071, 14824, 15600, 16399, 17222,
     18069, 18939, 19833, 20751, 21694, 22661, 23653, 24670, 25711, 26778, 27871, 28989,
     30132, 31302, 32498, 33719, 34968, 36243, 37544, 38872, 40228, 41610, 43020, 44458,
     45923, 47415, 48936, 50485, 52062, 53667, 55301, 56964, 58655, 60376, 62125, 63903,
     65711, 67549, 69416, 71313, 73239, 75196, 77183, 79200, 81248, 83326, 85435, 87575,
     89745, 91947, 94180, 96444, 98740, 101067, 103426, 105816, 108239, 110694, 113180, 115699,
     118251, 120835, 123452, 126101, 128783, 131499, 134247, 137029, 139844, 142692, 145574, 148490,
     151439, 154423, 157440, 160491, 163577, 166697, 169851, 173040, 176264, 179522, 182816, 186144,
     189507, 192906, 196340, 199809, 203314, 206854, 210430, 214042, 217689, 221373, 225093, 228849,
     232641, 236470, 240335, 244237, 248176, 252151, 256163, 260213, 264299, 268423, 272583, 276782,
     281017, 285291, 289602, 293950, 298337, 302761, 307224, 311725, 316263, 320841, 325456, 330110,
     334803, 339535, 344305, 349114, 353962, 358849, 363775, 368741, 373745, 378790, 383873, 388996,
     394159, 399362, 404605, 409887, 415209, 420572, 425975, 431418, 436901, 442425, 447989, 453594,
     459239, 464926, 470653, 476421, 482230, 488081, 493972, 499905, 505879, 511895, 517952, 524051,
     530191, 536373, 542597, 548863, 555171, 561521, 567913, 574348, 580825, 587344, 593905, 600510,
     607157, 613846, 620579, 627354, 634172, 641033, 647938, 654885, 661876, 668910, 675988, 683109,
     690274, 697482, 704734, 712030, 719369, 726753, 734181, 741652, 749168, 756728, 764333, 771982,
     779675, 787413, 795195, 803022, 810894, 818811, 826773, 834779, 842831, 850928, 859070, 867257,
     875490, 883768, 892091, 900460, 908875, 917335, 925841, 934393, 942991, 951635, 960325, 969060,
     977843, 986671, 995546 >>

RECURSIVE StepsAtMost(_, _, _)
\* The number of entries of LINEAR_TO_SRGB_STEPS (ascending) that are <= r,
\* knowing that the first lo are and that those after hi are not.
StepsAtMost(lo, hi, r) ==
  IF lo = hi THEN lo
  ELSE LET mid == (lo + hi + 1) \div 2
       IN IF LINEAR_TO_SRGB_STEPS[mid] <= r THEN StepsAtMost(mid, hi, r)
          ELSE StepsAtMost(lo, mid - 1, r)

\* Math.max(0, Math.min(255, Math.round(encode(r) * 255)))
LinearToSrgb(r) == StepsAtMost(0, 255, r)

XyzToRgb(X, Y, Z) ==
  LET x == X \div 100
      y == Y \div 100
      z == Z \div 100
      r == MulFP(x, 3240454) + MulFP(y, -1537139) + MulFP(z, -498531)
      g == MulFP(x, -969266) + MulFP(y, 1876011) + MulFP(z, 41556)
      b == MulFP(x, 55643) + MulFP(y, -204026) + MulFP(z, 1057225)
  IN <<LinearToSrgb(r), LinearToSrgb(g), LinearToSrgb(b)>>

LabToRgb(L, a, b) ==
  LET xyz == LabToXyz(L, a, b)
  IN XyzToRgb(xyz[1], xyz[2], xyz[3])

RECURSIVE ISqrtSearch(_, _, _)
ISqrtSearch(lo, hi, n) ==
  IF hi - lo <= 1 THEN lo
  ELSE LET mid == (lo + hi) \div 2
       IN IF mid * mid <= n THEN ISqrtSearch(mid, hi, n)
          ELSE ISqrtSearch(lo, mid, n)

\* Math.sqrt of a non-negative integer below 2^31, rounded down.
ISqrt(n) == ISqrtSearch(0, 46341, n)

\* deltaE: the components are reduced to hundredths before squaring, so the
\* distance is in hundredths of a Delta-E unit.
DeltaE(lab1, lab2) ==
  LET dL == RoundDiv(lab1[1] - lab2[1], 10000)
      da == RoundDiv(lab1[2] - lab2[2], 10000)
      db == RoundDiv(lab1[3] - lab2[3], 10000)
  IN ISqrt(dL * dL + da * da + db * db)

\* ------------------------------------------------------------------------
\* Processing parameters (presets: getDefaultParams)
\*
\* A numeric field is <<v>> with v in hundredths, or <<>> when the params
\* object has no such field (undefined).  A string field is "" when absent.
\* ------------------------------------------------------------------------
Num(v) == <<v>>
Undefined == <<>>
IsDefined(f) == Len(f) = 1
\* JavaScript truthiness of a numeric field: neither undefined nor 0.
Truthy(f) == IsDefined(f) /\ f[1] # 0

GetDefaultParams ==
  [exposure |-> Num(100),
   saturation |-> Num(100),
   toneMode |-> "contrast",
   contrast |-> Num(100),
   strength |-> Num(90),
   shadowBoost |-> Num(0),
   highlightCompress |-> Num(150),
   midpoint |-> Num(50),
   colorMethod |-> "rgb",
   ditherAlgorithm |-> "floyd-steinberg",
   compressDynamicRange |-> TRUE]

\* ------------------------------------------------------------------------
\* ToneAdjuster (processor: applyExposure, applyContrast, applySaturation,
\* applyScurveTonemap, preprocessImage).  A pixel is <<r, g, b, a>>; the
\* image data is the sequence of its pixels in row-major order.
\* ------------------------------------------------------------------------

\* A store into the Uint8ClampedArray of an ImageData: integers are clamped
\* to 0..255.  (Every value the pipeline stores is an integer or NaN; NaN is
\* stored as 0 and is written 0 where it arises.)
Uint8Clamp(v) == Max2(0, Min2(255, v))

MapRGB(px, F(_)) == <<F(px[1]), F(px[2]), F(px[3]), px[4]>>

ExposureValueUnclamped(c, exposure) == MathRound(c * exposure, 100)

\* Math.min(255, Math.round(data[i] * exposure)), the value assigned
ExposureValue(c, exposure) == Min2(255, MathRound(c * exposure, 100))

ExposureChannel(c, exposure) == Uint8Clamp(ExposureValue(c, exposure))

ApplyExposure(data, exposure) ==
  IF exposure = 100 THEN data
  ELSE [i \in 1..Len(data) |->
          LET F(c) == ExposureChannel(c, exposure) IN MapRGB(data[i], F)]

\* Math.max(0, Math.min(255, Math.round((data[i] - 128) * factor + 128)))
ContrastValue(c, factor) ==
  Max2(0, Min2(255, MathRound((c - 128) * factor + 12800, 100)))

ContrastChannel(c, factor) == Uint8Clamp(ContrastValue(c, factor))

ApplyContrast(data, contrast) ==
  IF contrast = 100 THEN data
  ELSE [i \in 1..Len(data) |->
          LET F(c) == ContrastChannel(c, contrast) IN MapRGB(data[i], F)]

\* One pixel of applySaturation, in exact rational arithmetic.  With
\* mx, mn the largest and least channel, d = mx - mn and
\* A = 255 * (1 - |2l - 1|), the code's s is d / A, its c * 255 is
\* A * newS = ns / 100, its h * 6 is h6n / d and every output channel is a
\* fraction over 200 * d.  Where that fraction is exactly a half the exact
\* value rounds up, while the code's doubles may land a hair below it and
\* round down: on such ties the result can differ from the code's by one.
SaturationValues(px, saturation) ==
  LET r == px[1]
      g == px[2]
      b == px[3]
      mx == Max2(r, Max2(g, b))
      mn == Min2(r, Min2(g, b))
      d == mx - mn
      A == IF mx + mn > 255 THEN 510 - mx - mn ELSE mx + mn
      ns == Max2(0, Min2(A * 100, d * saturation[1]))
      h6n == IF mx = r THEN (g - b) + (IF g < b THEN 6 * d ELSE 0)
             ELSE IF mx = g THEN (b - r) + 2 * d
             ELSE (r - g) + 4 * d
      w == Abs((h6n % (2 * d)) - d)
      hSector == h6n \div d
      base == d * (100 * (mx + mn) - ns)
      vC == base + 2 * ns * d
      vX == base + 2 * ns * (d - w)
      v0 == base
      primes == IF hSector = 0 THEN <<vC, vX, v0>>
                ELSE IF hSector = 1 THEN <<vX, vC, v0>>
                ELSE IF hSector = 2 THEN <<v0, vC, vX>>
                ELSE IF hSector = 3 THEN <<v0, vX, vC>>
                ELSE IF hSector = 4 THEN <<vX, v0, vC>>
                ELSE <<vC, v0, vX>>
  IN <<MathRound(primes[1], 200 * d), MathRound(primes[2], 200 * d),
       MathRound(primes[3], 200 * d)>>

\* A grey pixel is skipped; an undefined saturation makes every value NaN,
\* which is stored as 0.
SaturatePixel(px, saturation) ==
  IF Max2(px[1], Max2(px[2], px[3])) = Min2(px[1], Min2(px[2], px[3])) THEN px
  ELSE IF ~IsDefined(saturation) THEN <<0, 0, 0, px[4]>>
  ELSE LET v == SaturationValues(px, saturation)
       IN <<Uint8Clamp(v[1]), Uint8Clamp(v[2]), Uint8Clamp(v[3]), px[4]>>

ApplySaturation(data, saturation) ==
  IF saturation = Num(100) THEN data
  ELSE [i \in 1..Len(data) |-> SaturatePixel(data[i], saturation)]

\* Math.sqrt in fixed point, 0 <= v: the integer square root of v refined
\* linearly between consecutive squares.
SqrtFP(v) ==
  LET k == ISqrt(v)
  IN k * 1000 + ((v - k * k) * 1000) \div (2 * k + 1)

RECURSIVE PowInt(_, _)
PowInt(base, n) == IF n = 0 THEN FP ELSE MulFP(base, PowInt(base, n - 1))

RECURSIVE PowFrac(_, _, _)
\* base ^ (f / 10000) for 0 <= f < 10000, root = sqrt(base): the binary
\* digits of the exponent select the repeated square roots to multiply.
PowFrac(root, f, depth) ==
  IF f = 0 \/ depth = 0 THEN FP
  ELSE IF 2 * f >= 10000
       THEN MulFP(root, PowFrac(SqrtFP(root), 2 * f - 10000, depth - 1))
       ELSE PowFrac(SqrtFP(root), 2 * f, depth - 1)

PowBits == 16
InfinityFP == 2000 * FP

\* Math.pow(base, e) for 0 <= base <= 1 in fixed point, e in ten-thousandths.
\* Math.pow(x, 0) is 1 for every x and Math.pow(0, e) is Infinity for e < 0.
PowFP(base, e) ==
  LET mag == Abs(e)
      pos == MulFP(PowInt(base, mag \div 10000),
                   PowFrac(SqrtFP(base), mag % 10000, PowBits))
  IN IF e = 0 THEN FP
     ELSE IF base = 0 THEN (IF e > 0 THEN 0 ELSE InfinityFP)
     ELSE IF e > 0 THEN pos
     ELSE IF pos * 2000 <= FP THEN InfinityFP
     ELSE (FP \div pos) * FP + (((FP % pos) * 1000) \div pos) * 1000

\* Math.round(Math.max(0, Math.min(1, result)) * 255), the value
\* applyScurveTonemap assigns to one channel (all operands defined).
ScurveValue(c, strength, shadowBoost, highlightCompress, midpoint) ==
  LET normalized == (c * FP) \div 255
      mid == midpoint[1] * 10000
      shadowVal == DivBy(normalized, midpoint[1] * 10)
      shadow == MulFP(PowFP(Min2(FP, shadowVal),
                            10000 - strength[1] * shadowBoost[1]), mid)
      highlightVal == DivBy(normalized - mid, 1000 - midpoint[1] * 10)
      highlight == mid + MulFP(PowFP(Min2(FP, highlightVal),
                                     10000 + strength[1] * highlightCompress[1]),
                               FP - mid)
      clamp(v) == Max2(0, Min2(FP, v))
  IN IF normalized <= mid
       THEN MathRound(clamp(shadow) * 255, FP)
       ELSE MathRound(clamp(highlight) * 255, FP)

\* One channel of applyScurveTonemap.  Any undefined operand of the branch
\* taken makes the result NaN, which is stored as 0; an undefined midpoint
\* makes the comparison false and the highlight branch NaN.
ScurveChannel(c, strength, shadowBoost, highlightCompress, midpoint) ==
  IF ~IsDefined(midpoint) \/ ~IsDefined(strength) THEN 0
  ELSE IF (c * FP) \div 255 <= midpoint[1] * 10000
       THEN IF ~IsDefined(shadowBoost) THEN 0
            ELSE Uint8Clamp(ScurveValue(c, strength, shadowBoost,
                                        highlightCompress, midpoint))
       ELSE IF ~IsDefined(highlightCompress) THEN 0
            ELSE Uint8Clamp(ScurveValue(c, strength, shadowBoost,
                                        highlightCompress, midpoint))

ApplyScurveTonemap(data, strength, shadowBoost, highlightCompress, midpoint) ==
  IF strength = Num(0) THEN data
  ELSE [i \in 1..Len(data) |->
          LET F(c) == ScurveChannel(c, strength, shadowBoost,
                                    highlightCompress, midpoint)
          IN MapRGB(data[i], F)]

\* Step 4 on one pixel with the alpha byte set to opaque.
CompressPixelOpaque(px, blackL, whiteL) ==
  LET lab == RgbToLab(px[1], px[2], px[3])
      compressedL == blackL + MulFP(lab[1] \div 100, whiteL - blackL)
      new == LabToRgb(compressedL, lab[2], lab[3])
  IN <<new[1], new[2], new[3], 255>>

\* Step 4 of preprocessImage on one pixel: L is remapped into the range of
\* the perceived black and white, a and b are kept.
CompressPixel(px, blackL, whiteL) ==
  LET lab == RgbToLab(px[1], px[2], px[3])
      compressedL == blackL + MulFP(lab[1] \div 100, whiteL - blackL)
      new == LabToRgb(compressedL, lab[2], lab[3])
  IN <<new[1], new[2], new[3], px[4]>>

CompressDynamicRange(data, perceivedPalette) ==
  LET paletteBlack == perceivedPalette.black
      paletteWhite == perceivedPalette.white
      blackL == RgbToLab(paletteBlack.r, paletteBlack.g, paletteBlack.b)[1]
      whiteL == RgbToLab(paletteWhite.r, paletteWhite.g, paletteWhite.b)[1]
  IN [i \in 1..Len(data) |-> CompressPixel(data[i], blackL, whiteL)]

ToneModeOf(params) == IF params.toneMode = "" THEN "contrast" ELSE params.toneMode

AfterExposure(data, params) ==
  IF Truthy(params.exposure) /\ params.exposure # Num(100)
  THEN ApplyExposure(data, params.exposure[1])
  ELSE data

AfterSaturation(data, params) ==
  IF params.saturation # Num(100)
  THEN ApplySaturation(data, params.saturation)
  ELSE data

AfterToneMapping(data, params) ==
  IF ToneModeOf(params) = "contrast"
  THEN IF Truthy(params.contrast) /\ params.contrast # Num(100)
       THEN ApplyContrast(data, params.contrast[1])
       ELSE data
  ELSE ApplyScurveTonemap(data, params.strength, params.shadowBoost,
                          params.highlightCompress, params.midpoint)

CompressAlways(data, params, perceivedPalette) ==
  CompressDynamicRange(data, perceivedPalette)

AfterCompression(data, params, perceivedPalette) ==
  IF params.compressDynamicRange
  THEN CompressDynamicRange(data, perceivedPalette)
  ELSE data

\* The four steps with tone mapping moved to the front.
PreprocessImageToneFirst(data, params, perceivedPalette) ==
  AfterCompression(
    AfterSaturation(AfterExposure(AfterToneMapping(data, params), params), params),
    params, perceivedPalette)

\* preprocessImage: the four steps in order, each on the previous result.
\* processImage always passes palette.perceived, so the perceivedPalette
\* argument is never absent.
PreprocessImage(data, params, perceivedPalette) ==
  AfterCompression(
    AfterToneMapping(AfterSaturation(AfterExposure(data, params), params), params),
    params, perceivedPalette)

\* ------------------------------------------------------------------------
\* PaletteMatcher (processor: findClosestColorRGB, findClosestColorLAB,
\* findClosestColor).  Colours are given in 1/ErrUnit levels; the palette
\* array holds integer levels; the result is a 0-based slot index.
\* ------------------------------------------------------------------------
Infinity == 2147483647
ReservedIndex == 4
DefaultClosest == 1

IsReservedNever(i) == FALSE

IsReserved(i) == i = ReservedIndex

DistRGB(rU, gU, bU, entry) ==
  LET dr == rU - entry[1] * ErrUnit
      dg == gU - entry[2] * ErrUnit
      db == bU - entry[3] * ErrUnit
  IN dr * dr + dg * dg + db * db

CloserOrEqual(dist, minDist) == dist <= minDist

\* if (dist < minDist): only a strictly smaller distance replaces the
\* candidate.
Closer(dist, minDist) == dist < minDist

RECURSIVE ClosestRGBFrom(_, _, _, _, _, _, _)
ClosestRGBFrom(i, minDist, closest, rU, gU, bU, paletteArray) ==
  IF i >= Len(paletteArray) THEN closest
  ELSE IF IsReserved(i)
       THEN ClosestRGBFrom(i + 1, minDist, closest, rU, gU, bU, paletteArray)
       ELSE LET dist == DistRGB(rU, gU, bU, paletteArray[i + 1])
            IN IF Closer(dist, minDist)
               THEN ClosestRGBFrom(i + 1, dist, i, rU, gU, bU, paletteArray)
               ELSE ClosestRGBFrom(i + 1, minDist, closest, rU, gU, bU, paletteArray)

FindClosestColorRGB(rU, gU, bU, paletteArray) ==
  ClosestRGBFrom(0, Infinity, DefaultClosest, rU, gU, bU, paletteArray)

RECURSIVE ClosestLABFrom(_, _, _, _, _, _)
ClosestLABFrom(i, minDist, closest, inputLab, paletteArray, paletteLab) ==
  IF i >= Len(paletteArray) THEN closest
  ELSE IF IsReserved(i)
       THEN ClosestLABFrom(i + 1, minDist, closest, inputLab, paletteArray, paletteLab)
       ELSE LET dist == DeltaE(inputLab, paletteLab[i + 1])
            IN IF Closer(dist, minDist)
               THEN ClosestLABFrom(i + 1, dist, i, inputLab, paletteArray, paletteLab)
               ELSE ClosestLABFrom(i + 1, minDist, closest, inputLab, paletteArray,
                                   paletteLab)

FindClosestColorLAB(rU, gU, bU, paletteArray, paletteLab) ==
  ClosestLABFrom(0, Infinity, DefaultClosest, RgbToLabU(rU, gU, bU),
                 paletteArray, paletteLab)

FindClosestColor(rU, gU, bU, method, paletteArray, paletteLab) ==
  IF method = "lab"
  THEN FindClosestColorLAB(rU, gU, bU, paletteArray, paletteLab)
  ELSE FindClosestColorRGB(rU, gU, bU, paletteArray)

\* ------------------------------------------------------------------------
\* Ditherer (processor: DIFFUSION_MATRICES, applyErrorDiffusionDither)
\* A kernel entry is <<dx, dy, numerator, denominator>>.
\* ------------------------------------------------------------------------
DIFFUSION_MATRICES ==
  [x \in {"floyd-steinberg", "stucki", "burkes", "sierra"} |->
     CASE x = "floyd-steinberg" ->
            << <<1, 0, 7, 16>>, <<-1, 1, 3, 16>>, <<0, 1, 5, 16>>, <<1, 1, 1, 16>> >>
       [] x = "stucki" ->
            << <<1, 0, 8, 42>>, <<2, 0, 4, 42>>,
               <<-2, 1, 2, 42>>, <<-1, 1, 4, 42>>, <<0, 1, 8, 42>>,
               <<1, 1, 4, 42>>, <<2, 1, 2, 42>>,
               <<-2, 2, 1, 42>>, <<-1, 2, 2, 42>>, <<0, 2, 4, 42>>,
               <<1, 2, 2, 42>>, <<2, 2, 1, 42>> >>
       [] x = "burkes" ->
            << <<1, 0, 8, 32>>, <<2, 0, 4, 32>>,
               <<-2, 1, 2, 32>>, <<-1, 1, 4, 32>>, <<0, 1, 8, 32>>,
               <<1, 1, 4, 32>>, <<2, 1, 2, 32>> >>
       [] x = "sierra" ->
            << <<1, 0, 5, 32>>, <<2, 0, 3, 32>>,
               <<-2, 1, 2, 32>>, <<-1, 1, 4, 32>>, <<0, 1, 5, 32>>,
               <<1, 1, 4, 32>>, <<2, 1, 2, 32>>,
               <<-1, 2, 2, 32>>, <<0, 2, 3, 32>>, <<1, 2, 2, 32>> >>]

\* Property names every object literal answers to without owning them: a
\* lookup of one of them yields a value of Object.prototype (a function, or
\* the prototype itself), which is truthy and is neither a kernel nor an
\* array.
ObjectPrototypeNames == {"constructor", "toString", "__proto__"}

\* Whether the value the lookup below settles on can be iterated by the
\* for...of of the diffusion loop.
IsIterable(algorithm) == algorithm \notin ObjectPrototypeNames

\* A lookup that hands out each kernel flipped left to right, as a
\* right-to-left pass of a serpentine scan would use it.
DiffusionMatrixMirrored(algorithm) ==
  LET kernel == IF algorithm \in DOMAIN DIFFUSION_MATRICES
                THEN DIFFUSION_MATRICES[algorithm]
                ELSE IF algorithm \in ObjectPrototypeNames THEN <<>>
                ELSE DIFFUSION_MATRICES["floyd-steinberg"]
  IN [k \in 1..Len(kernel) |->
        <<0 - kernel[k][1], kernel[k][2], kernel[k][3], kernel[k][4]>>]

\* DIFFUSION_MATRICES[algorithm] || DIFFUSION_MATRICES["floyd-steinberg"]
\* (for an inherited name the value is not a kernel: <<>> stands for it and
\* is never iterated, see IsIterable).
DiffusionMatrixOf(algorithm) ==
  IF algorithm \in DOMAIN DIFFUSION_MATRICES
  THEN DIFFUSION_MATRICES[algorithm]
  ELSE IF algorithm \in ObjectPrototypeNames THEN <<>>
  ELSE DIFFUSION_MATRICES["floyd-steinberg"]

\* ditherPaletteArray.map(rgbToLab) when the method is "lab", else null.
DitherPaletteLabOf(method, ditherPaletteArray) ==
  IF method = "lab"
  THEN [i \in 1..Len(ditherPaletteArray) |->
          RgbToLab(ditherPaletteArray[i][1], ditherPaletteArray[i][2],
                   ditherPaletteArray[i][3])]
  ELSE <<>>

\* Math.max(0, Math.min(255, data[idx + c] + errors[errIdx + c])) in units.
WorkingChannel(c, e) == Max2(0, Min2(255 * ErrUnit, c * ErrUnit + e))

WorkingColour(px, err) ==
  <<WorkingChannel(px[1], err[1]), WorkingChannel(px[2], err[2]),
    WorkingChannel(px[3], err[3])>>

QuantErrorReversed(old, ditherEntry) ==
  <<ditherEntry[1] * ErrUnit - old[1], ditherEntry[2] * ErrUnit - old[2],
    ditherEntry[3] * ErrUnit - old[3]>>

\* errR, errG, errB: the working colour minus the dither palette's entry.
QuantError(old, ditherEntry) ==
  <<old[1] - ditherEntry[1] * ErrUnit, old[2] - ditherEntry[2] * ErrUnit,
    old[3] - ditherEntry[3] * ErrUnit>>

InBoundsFlat(nx, ny, w, h) == ny * w + nx >= 0 /\ ny * w + nx < w * h

\* if (nx >= 0 && nx < width && ny >= 0 && ny < height)
InBounds(nx, ny, w, h) == nx >= 0 /\ nx < w /\ ny >= 0 /\ ny < h

RECURSIVE Diffuse(_, _, _, _, _, _, _, _)
\* The matrix entries from k on, applied to the accumulator for pixel (x, y).
Diffuse(errs, matrix, k, x, y, w, h, qerr) ==
  IF k > Len(matrix) THEN errs
  ELSE LET nx == x + matrix[k][1]
           ny == y + matrix[k][2]
           nextIdx == ny * w + nx + 1
           share(c) == RoundDiv(qerr[c] * matrix[k][3], matrix[k][4])
           added == IF InBounds(nx, ny, w, h)
                    THEN [errs EXCEPT ![nextIdx] =
                            <<@[1] + share(1), @[2] + share(2), @[3] + share(3)>>]
                    ELSE errs
       IN Diffuse(added, matrix, k + 1, x, y, w, h, qerr)

\* ------------------------------------------------------------------------
\* State
\* ------------------------------------------------------------------------
VARIABLES
  pc,                  \* position in processImage
  width, height,       \* imageData.width, imageData.height
  source,              \* the pixels read by getImageData, before any stage
  data,                \* imageData.data
  adjusted,            \* imageData.data as preprocessImage left it
  params, palette,     \* options.params, options.palette
  skipDithering, usePerceivedOutput,
  outputPaletteArray, ditherPaletteArray, ditherPaletteLab,
  errors,              \* the error accumulator, one <<eR, eG, eB>> per pixel
  pos,                 \* y * width + x of the next pixel of the raster loop
  work,                \* the working colour of each pixel visited so far
  chosen,              \* the colorIdx of each pixel visited so far
  canvas,              \* the pixels put back on the returned canvas
  match,               \* findClosestColor called on its own: arguments, result
  bmp,                 \* createBMP: its canvas, buffer and write offset
  pv,                  \* validatePalette / parsePalette: input and outcome
  entry,               \* convertImage / processImageFile: options and outcome
  heap,                \* getPreset / getPalette / mergeParams: registries, results
  frame,               \* processImage up to getImageData: the canvases it makes
  calc                 \* a colour-space or tone function called on its own

imageVars == <<width, height, source, params, palette, skipDithering,
               usePerceivedOutput>>
ditherVars == <<outputPaletteArray, ditherPaletteArray, ditherPaletteLab,
                errors, pos, work, chosen>>
pipeVars == <<pc, data, adjusted, canvas>>
otherVars == <<match, bmp, pv, entry, heap, frame, calc>>
vars == <<imageVars, ditherVars, pipeVars, otherVars>>

\* ------------------------------------------------------------------------
\* processImage from getImageData on (the canvas is already display sized)
\* ------------------------------------------------------------------------
Black == <<0, 0, 0, 255>>
Grey == <<128, 128, 128, 255>>
White == <<255, 255, 255, 255>>
Crimson == <<200, 30, 40, 128>>
Teal == <<20, 140, 150, 255>>
Sand == <<230, 200, 120, 0>>

DitherPixels == {Black, Grey, Crimson}
TonePixels == {Black, Grey, White, Crimson, Teal, Sand}

Algorithms ==
  {"floyd-steinberg", "stucki", "burkes", "sierra", "atkinson", "",
   "constructor"}
Methods == {"rgb", "lab"}

DitherParams ==
  {[GetDefaultParams EXCEPT !.ditherAlgorithm = a, !.colorMethod = m,
                            !.compressDynamicRange = FALSE] :
     a \in Algorithms, m \in Methods}
  \cup {[GetDefaultParams EXCEPT !.colorMethod = m] : m \in Methods}

Flat == [GetDefaultParams EXCEPT !.compressDynamicRange = FALSE]
Scurve == [Flat EXCEPT !.toneMode = "scurve"]

ToneParams ==
  {GetDefaultParams, Flat,
   [Flat EXCEPT !.exposure = Num(150)],
   [Flat EXCEPT !.exposure = Num(50)],
   [Flat EXCEPT !.exposure = Num(0)],
   [Flat EXCEPT !.saturation = Num(0)],
   [Flat EXCEPT !.saturation = Num(130)],
   [Flat EXCEPT !.saturation = Num(200)],
   [Flat EXCEPT !.contrast = Num(90)],
   [Flat EXCEPT !.contrast = Num(150)],
   [Flat EXCEPT !.contrast = Num(0)],
   [Flat EXCEPT !.exposure = Num(110), !.saturation = Num(160),
                !.contrast = Num(120)],
   Scurve,
   [Scurve EXCEPT !.strength = Num(0)],
   [Scurve EXCEPT !.strength = Num(70), !.shadowBoost = Num(10),
                  !.highlightCompress = Num(130)],
   [Scurve EXCEPT !.strength = Num(100), !.shadowBoost = Num(50),
                  !.highlightCompress = Num(100), !.midpoint = Num(40)],
   [Scurve EXCEPT !.saturation = Num(130), !.compressDynamicRange = TRUE],
   [Scurve EXCEPT !.contrast = Num(150)],
   [Flat EXCEPT !.toneMode = "", !.contrast = Num(150)],
   [Flat EXCEPT !.saturation = Undefined],
   [Flat EXCEPT !.exposure = Undefined, !.contrast = Undefined]}

ZeroErrors(n) == [i \in 1..n |-> <<0, 0, 0>>]

MatchIdle == match = [pc |-> "idle"]
BmpIdle == bmp = [pc |-> "idle"]
PvIdle == pv = [pc |-> "idle"]
EntryIdle == entry = [pc |-> "idle"]
HeapIdle == heap = [pc |-> "idle"]
FrameIdle == frame = [pc |-> "idle"]
CalcIdle == calc = [pc |-> "idle"]

PipelineIdle ==
  /\ pc = "idle"
  /\ width = 0
  /\ height = 0
  /\ source = <<>>
  /\ data = <<>>
  /\ adjusted = <<>>
  /\ params = GetDefaultParams
  /\ palette = SPECTRA6
  /\ skipDithering = FALSE
  /\ usePerceivedOutput = FALSE
  /\ outputPaletteArray = <<>>
  /\ ditherPaletteArray = <<>>
  /\ ditherPaletteLab = <<>>
  /\ errors = <<>>
  /\ pos = 0
  /\ work = <<>>
  /\ chosen = <<>>
  /\ canvas = <<>>

OthersIdle ==
  /\ MatchIdle
  /\ BmpIdle
  /\ PvIdle
  /\ EntryIdle
  /\ HeapIdle
  /\ FrameIdle
  /\ CalcIdle

AfterPreprocessAlwaysDither(skip) == "dither_init"

\* if (!skipDithering) { ... applyErrorDiffusionDither(...) }
AfterPreprocess(skip) == IF skip THEN "put" ELSE "dither_init"

Init ==
  /\ \E w \in 1..MaxW, h \in 1..MaxH :
       /\ w * h <= MaxPixels
       /\ width = w
       /\ height = h
       /\ \/ /\ source \in [1..(w * h) -> DitherPixels]
             /\ params \in DitherParams
             /\ skipDithering = FALSE
          \/ /\ w * h = 1
             /\ source \in [1..(w * h) -> TonePixels]
             /\ params \in ToneParams
             /\ skipDithering \in BOOLEAN
  /\ palette \in Palettes
  /\ usePerceivedOutput \in BOOLEAN
  /\ data = source
  /\ adjusted = <<>>
  /\ pc = "preprocess"
  /\ outputPaletteArray = <<>>
  /\ ditherPaletteArray = <<>>
  /\ ditherPaletteLab = <<>>
  /\ errors = <<>>
  /\ pos = 0
  /\ work = <<>>
  /\ chosen = <<>>
  /\ canvas = <<>>
  /\ OthersIdle

\* const processingParams = {...}; preprocessImage(imageData, ..., palette.perceived)
Preprocess ==
  /\ pc = "preprocess"
  /\ data' = PreprocessImage(data, params, palette.perceived)
  /\ adjusted' = data'
  /\ pc' = AfterPreprocess(skipDithering)
  /\ UNCHANGED <<imageVars, ditherVars, canvas, otherVars>>

OutputPaletteSwapped(usePerceived, pal) ==
  IF usePerceived THEN pal.theoretical ELSE pal.perceived

\* usePerceivedOutput ? palette.perceived : palette.theoretical
OutputPalette(usePerceived, pal) ==
  IF usePerceived THEN pal.perceived ELSE pal.theoretical

DitherPaletteTheoretical(pal) == pal.theoretical

\* The palette whose array is passed as ditherPaletteArray.
DitherPalette(pal) == pal.perceived

ColorMethodOf(p) == IF p.colorMethod = "" THEN "rgb" ELSE p.colorMethod
DitherAlgorithmOf(p) ==
  IF p.ditherAlgorithm = "" THEN "floyd-steinberg" ELSE p.ditherAlgorithm

\* The arguments of applyErrorDiffusionDither and its set-up before the loop.
DitherInit ==
  /\ pc = "dither_init"
  /\ outputPaletteArray' =
       PaletteToArray(OutputPalette(usePerceivedOutput, palette))
  /\ ditherPaletteArray' = PaletteToArray(DitherPalette(palette))
  /\ ditherPaletteLab' =
       DitherPaletteLabOf(ColorMethodOf(params), ditherPaletteArray')
  /\ errors' = ZeroErrors(width * height)
  /\ pos' = 0
  /\ pc' = "dither"
  /\ UNCHANGED <<imageVars, work, chosen, data, adjusted, canvas, otherVars>>

LoopDoneEarly(p, w, h) == p >= w * h - 1

\* The raster loops have run off the image: y = height.
LoopDone(p, w, h) == p = w * h

\* One iteration of the raster loop, for pixel x = pos % width, y = pos \div width.
\* The pixel is written before the kernel is iterated; iterating a value that
\* is not iterable throws a TypeError out of applyErrorDiffusionDither and
\* processImage.
DitherPixel ==
  /\ pc = "dither"
  /\ ~LoopDone(pos, width, height)
  /\ LET x == pos % width
         y == pos \div width
         old == WorkingColour(data[pos + 1], errors[pos + 1])
         colorIdx == FindClosestColor(old[1], old[2], old[3],
                                      ColorMethodOf(params),
                                      ditherPaletteArray, ditherPaletteLab)
         new == outputPaletteArray[colorIdx + 1]
         qerr == QuantError(old, ditherPaletteArray[colorIdx + 1])
     IN /\ data' = [data EXCEPT ![pos + 1] =
                      <<Uint8Clamp(new[1]), Uint8Clamp(new[2]),
                        Uint8Clamp(new[3]), @[4]>>]
        /\ IF IsIterable(DitherAlgorithmOf(params))
             THEN /\ errors' = Diffuse(errors,
                                       DiffusionMatrixOf(DitherAlgorithmOf(params)),
                                       1, x, y, width, height, qerr)
                  /\ pos' = pos + 1
                  /\ pc' = pc
             ELSE /\ errors' = errors
                  /\ pos' = pos
                  /\ pc' = "thrown"
        /\ work' = Append(work, old)
        /\ chosen' = Append(chosen, colorIdx)
  /\ UNCHANGED <<imageVars, outputPaletteArray, ditherPaletteArray,
                 ditherPaletteLab, adjusted, canvas, otherVars>>

\* The loop's exit: applyErrorDiffusionDither returns.
DitherReturn ==
  /\ pc = "dither"
  /\ LoopDone(pos, width, height)
  /\ pc' = "put"
  /\ UNCHANGED <<imageVars, ditherVars, data, adjusted, canvas, otherVars>>

\* getCanvasContext(canvas).putImageData(imageData, 0, 0); return
PutImageData ==
  /\ pc = "put"
  /\ canvas' = data
  /\ pc' = "done"
  /\ UNCHANGED <<imageVars, ditherVars, data, adjusted, otherVars>>

Next ==
  \/ Preprocess
  \/ DitherInit
  \/ DitherPixel
  \/ DitherReturn
  \/ PutImageData

Spec == Init /\ [][Next]_vars

\* ------------------------------------------------------------------------
\* findClosestColor on its own: every probe colour against every array
\* ------------------------------------------------------------------------
ProbeLevels == {0, 2, 100, 128, 255}

\* Working colours in 1/ErrUnit levels: whole levels and one fractional one.
ProbeColours ==
  {<<r * ErrUnit, g * ErrUnit, b * ErrUnit>> : r \in ProbeLevels,
     g \in {0, 128, 255}, b \in {0, 200}}
  \cup {<<1, 0, ErrUnit \div 2>>, <<127 * ErrUnit + 1, 128 * ErrUnit, 129 * ErrUnit - 1>>}

UniformArray(v) == [i \in 1..7 |-> <<v, v, v>>]

\* 7-slot arrays: those of paletteToArray, arrays whose slots are all the
\* same colour, one whose reserved slot alone matches mid grey, and one in
\* which slots 3 and 5 hold the same red.
ProbeArrays ==
  {PaletteToArray(p.theoretical) : p \in Palettes}
  \cup {PaletteToArray(p.perceived) : p \in Palettes}
  \cup {UniformArray(0), UniformArray(128)}
  \cup {[UniformArray(255) EXCEPT ![ReservedIndex + 1] = <<128, 128, 128>>]}
  \cup {[PaletteToArray(SPECTRA6.theoretical) EXCEPT ![6] = <<255, 0, 0>>]}

InitMatch ==
  /\ PipelineIdle
  /\ HeapIdle
  /\ FrameIdle
  /\ CalcIdle
  /\ BmpIdle
  /\ PvIdle
  /\ EntryIdle
  /\ \E c \in ProbeColours, pa \in ProbeArrays, m \in Methods :
       match = [pc |-> "call", colour |-> c, paletteArray |-> pa, method |-> m]

\* findClosestColor(r, g, b, method, paletteArray, paletteLab), with
\* paletteLab as applyErrorDiffusionDither prepares it.
MatchCall ==
  /\ match.pc = "call"
  /\ match' =
       [pc |-> "returned", colour |-> match.colour,
        paletteArray |-> match.paletteArray, method |-> match.method,
        result |-> FindClosestColor(
                     match.colour[1], match.colour[2], match.colour[3],
                     match.method, match.paletteArray,
                     DitherPaletteLabOf(match.method, match.paletteArray))]
  /\ UNCHANGED <<imageVars, ditherVars, pipeVars, heap, frame, calc,
                 bmp, pv, entry>>

NextMatch == MatchCall

SpecMatch == InitMatch /\ [][NextMatch]_vars

\* ------------------------------------------------------------------------
\* Properties of the dithering step
\* ------------------------------------------------------------------------
ActiveSlots == {0, 1, 2, 3, 5, 6}

\* The six role colours of one palette, read from the palette object itself.
RoleColours(pal) ==
  {<<pal[Roles[k]].r, pal[Roles[k]].g, pal[Roles[k]].b>> : k \in 1..Len(Roles)}

RGBOf(px) == <<px[1], px[2], px[3]>>

IntendedOutput ==
  IF usePerceivedOutput THEN palette.perceived ELSE palette.theoretical

Dithered == ~skipDithering /\ pc \in {"put", "done"}

\* C1: once applyErrorDiffusionDither has returned, every pixel of the buffer
\* (and of the canvas it is put on) has an RGB triple equal to one of the six
\* role colours of the output palette, whatever the input image, the palette
\* pair, the kernel and the matching method.
C1_OutputPixelsInPalette ==
  /\ Dithered =>
       \A i \in 1..Len(data) : RGBOf(data[i]) \in RoleColours(IntendedOutput)
  /\ (~skipDithering /\ pc = "done") =>
       \A i \in 1..Len(canvas) : RGBOf(canvas[i]) \in RoleColours(IntendedOutput)

\* A finished dither of a full-size image with an input colour outside the
\* palette, two different output colours, and a pixel that took diffused error.
C1_Witness ==
  /\ ~skipDithering
  /\ pc = "done"
  /\ Len(canvas) = MaxPixels
  /\ \E i \in 1..Len(source) : RGBOf(source[i]) \notin RoleColours(IntendedOutput)
  /\ \E i, j \in 1..Len(canvas) : RGBOf(canvas[i]) # RGBOf(canvas[j])
  /\ \E i \in 1..Len(work) :
       work[i] # <<adjusted[i][1] * ErrUnit, adjusted[i][2] * ErrUnit,
                   adjusted[i][3] * ErrUnit>>

\* C2: findClosestColor returns one of the slots 0, 1, 2, 3, 5, 6 and never
\* the reserved slot 4, for every working colour, palette array and method;
\* the same holds for every index the dither loop obtained from it.
C2_NeverReservedSlot ==
  /\ match.pc = "returned" => match.result \in ActiveSlots
  /\ \A i \in 1..Len(chosen) : chosen[i] \in ActiveSlots

\* A call where the reserved slot is strictly the nearest entry of the array
\* and an active slot was returned all the same.
C2_Witness ==
  /\ match.pc = "returned"
  /\ match.method = "rgb"
  /\ match.result \in ActiveSlots
  /\ DistRGB(match.colour[1], match.colour[2], match.colour[3],
             match.paletteArray[ReservedIndex + 1])
       < DistRGB(match.colour[1], match.colour[2], match.colour[3],
                 match.paletteArray[match.result + 1])

\* Distances of a working colour to the active entries of an array, under
\* the matching method (squared RGB distance, or Delta E in Lab).
DistancesTo(colour, method, paletteArray) ==
  IF method = "lab"
    THEN LET lab == RgbToLabU(colour[1], colour[2], colour[3])
         IN [s \in ActiveSlots |->
               DeltaE(lab, RgbToLab(paletteArray[s + 1][1],
                                    paletteArray[s + 1][2],
                                    paletteArray[s + 1][3]))]
    ELSE [s \in ActiveSlots |->
            DistRGB(colour[1], colour[2], colour[3], paletteArray[s + 1])]

NearestIn(colour, method, paletteArray, slot) ==
  LET d == DistancesTo(colour, method, paletteArray)
  IN \A other \in ActiveSlots : d[slot] <= d[other]

\* C3: for every pixel the loop has visited, the chosen index is that of a
\* nearest active entry of the PERCEIVED palette to the pixel's working
\* colour, and the RGB written is the entry of that index in the theoretical
\* palette, or in the perceived palette when usePerceivedOutput is set.
\* (work and chosen only grow, so the nearest-entry half is evaluated for the
\* pixel visited last: the earlier ones were that pixel in earlier states.)
C3_MatchPerceivedWriteTheoretical ==
  \A i \in 1..Len(chosen) :
    /\ i = Len(chosen) =>
         NearestIn(work[i], ColorMethodOf(params),
                   PaletteToArray(palette.perceived), chosen[i])
    /\ RGBOf(data[i]) = PaletteToArray(IntendedOutput)[chosen[i] + 1]

\* A finished default-output dither with a pixel whose chosen index is not a
\* nearest entry of the theoretical palette, and whose written colour differs
\* from the perceived entry of the index.
C3_Witness ==
  /\ pc = "done"
  /\ ~skipDithering
  /\ ~usePerceivedOutput
  /\ \E i \in 1..Len(chosen) :
       /\ ~NearestIn(work[i], ColorMethodOf(params),
                     PaletteToArray(palette.theoretical), chosen[i])
       /\ RGBOf(canvas[i]) # PaletteToArray(palette.perceived)[chosen[i] + 1]
       /\ RGBOf(canvas[i]) = PaletteToArray(palette.theoretical)[chosen[i] + 1]

\* ------------------------------------------------------------------------
\* Properties of preprocessImage
\* ------------------------------------------------------------------------
Preprocessed == pc # "preprocess" /\ pc # "idle"

\* C4 as stated: preprocessImage with the parameters getDefaultParams returns
\* leaves the buffer byte for byte as it was.  getDefaultParams sets
\* compressDynamicRange, so the buffer is remapped into the display's range.
C4_DefaultParamsIdentity ==
  (Preprocessed /\ params = GetDefaultParams) => adjusted = source

\* C4, amended: with exposure 1.0, saturation 1.0, tone mode "contrast" with
\* contrast 1.0 AND compressDynamicRange off, preprocessImage leaves every
\* byte of the buffer, alpha included, as it was.
C4_NeutralParamsIdentity ==
  (/\ Preprocessed
   /\ params.exposure = Num(100)
   /\ params.saturation = Num(100)
   /\ params.toneMode = "contrast"
   /\ params.contrast = Num(100)
   /\ ~params.compressDynamicRange) => adjusted = source

\* preprocessImage has run with those parameters on a buffer holding a
\* coloured, half-transparent pixel.
C4_Witness ==
  /\ Preprocessed
  /\ params = Flat
  /\ \E i \in 1..Len(source) : source[i] = Crimson
  /\ adjusted = source

\* ------------------------------------------------------------------------
\* createBMP (processor): the canvas' pixels as a 24-bit bottom-up BMP
\* ------------------------------------------------------------------------
MaxBmpW == 8
MaxBmpH == 12

CeilDiv(a, b) == (a + b - 1) \div b

RowSizeUnpadded(w) == w * 3

\* Math.ceil((width * 3) / 4) * 4
RowSize(w) == CeilDiv(w * 3, 4) * 4

\* Buffer.alloc(n): n zero bytes; byte k of the buffer is element k + 1.
BufferAlloc(n) == [k \in 1..n |-> 0]

\* buffer[off] = v on a Buffer: the value is stored modulo 256 and an index
\* past the end stores nothing.
SetByte(buf, off, v) ==
  IF off < Len(buf) THEN [buf EXCEPT ![off + 1] = v % 256] ELSE buf

Pow256(k) == IF k = 0 THEN 1 ELSE IF k = 1 THEN 256
             ELSE IF k = 2 THEN 65536 ELSE 16777216

\* writeUInt32LE / writeInt32LE / writeUInt16LE of a non-negative value that
\* fits: n bytes from off, least significant first.
WriteLE(buf, value, off, n) ==
  [k \in 1..Len(buf) |->
     IF k - 1 >= off /\ k - 1 < off + n
       THEN (value \div Pow256(k - 1 - off)) % 256
       ELSE buf[k]]

\* buffer.write("BM", 0)
WriteSignature(buf) == SetByte(SetByte(buf, 0, 66), 1, 77)

\* The BMP file header (14 bytes) and the BITMAPINFOHEADER (40 bytes).
WriteHeaders(buf, w, h, fileSize, pixelDataSize) ==
  LET b1 == WriteLE(WriteSignature(buf), fileSize, 2, 4)
      b2 == WriteLE(b1, 0, 6, 4)
      b3 == WriteLE(b2, 54, 10, 4)
      b4 == WriteLE(b3, 40, 14, 4)
      b5 == WriteLE(b4, w, 18, 4)
      b6 == WriteLE(b5, h, 22, 4)
      b7 == WriteLE(b6, 1, 26, 2)
      b8 == WriteLE(b7, 24, 28, 2)
      b9 == WriteLE(b8, 0, 30, 4)
      b10 == WriteLE(b9, pixelDataSize, 34, 4)
      b11 == WriteLE(b10, 2835, 38, 4)
      b12 == WriteLE(b11, 2835, 42, 4)
      b13 == WriteLE(b12, 0, 46, 4)
  IN WriteLE(b13, 0, 50, 4)

PixelBytesRGB(px) == <<px[1], px[2], px[3]>>

\* data[srcIdx + 2], data[srcIdx + 1], data[srcIdx]: blue, green, red.
PixelBytes(px) == <<px[3], px[2], px[1]>>

\* The inner loop over x of row y; st is the buffer and the write offset.
RECURSIVE WritePixels(_, _, _, _, _)
WritePixels(st, imgData, w, y, x) ==
  IF x >= w THEN st
  ELSE LET bytes == PixelBytes(imgData[y * w + x + 1])
           b1 == SetByte(st.buffer, st.offset, bytes[1])
           b2 == SetByte(b1, st.offset + 1, bytes[2])
           b3 == SetByte(b2, st.offset + 2, bytes[3])
       IN WritePixels([buffer |-> b3, offset |-> st.offset + 3],
                      imgData, w, y, x + 1)

\* The padding loop at the end of a row.
RECURSIVE WritePadding(_, _, _)
WritePadding(st, padding, k) ==
  IF k >= padding THEN st
  ELSE WritePadding([buffer |-> SetByte(st.buffer, st.offset, 0),
                     offset |-> st.offset + 1], padding, k + 1)

BmpSeeds == {0, 7, 131, 250}

\* An image whose bytes all differ from their neighbours', wrapping at 256.
PatternImage(w, h, seed) ==
  [k \in 1..(w * h) |->
     <<(seed + 4 * k) % 256, (seed + 4 * k + 1) % 256,
       (seed + 4 * k + 2) % 256, (seed + 4 * k + 3) % 256>>]

\* The image of the encoder's tests: one colour everywhere.
FilledImage(w, h) == [k \in 1..(w * h) |-> <<255, 128, 64, 255>>]

InitBMP ==
  /\ PipelineIdle
  /\ HeapIdle
  /\ FrameIdle
  /\ CalcIdle
  /\ MatchIdle
  /\ PvIdle
  /\ EntryIdle
  /\ \E w \in 1..MaxBmpW, h \in 1..MaxBmpH :
       \E img \in {PatternImage(w, h, seed) : seed \in BmpSeeds}
                    \cup {FilledImage(w, h)} :
         bmp = [pc |-> "call", width |-> w, height |-> h, data |-> img,
                buffer |-> <<>>, offset |-> 0, y |-> 0]

\* createBMP up to the pixel loop: the sizes, Buffer.alloc, the two headers,
\* offset = 54 and y = height - 1.
CreateBMPHeaders ==
  /\ bmp.pc = "call"
  /\ LET rowSize == RowSize(bmp.width)
         pixelDataSize == rowSize * bmp.height
         fileSize == 54 + pixelDataSize
     IN bmp' = [bmp EXCEPT
                  !.pc = "rows",
                  !.buffer = WriteHeaders(BufferAlloc(fileSize), bmp.width,
                                          bmp.height, fileSize, pixelDataSize),
                  !.offset = 54,
                  !.y = bmp.height - 1]
  /\ UNCHANGED <<imageVars, ditherVars, pipeVars, heap, frame, calc,
                 match, pv, entry>>

\* One iteration of the outer loop: row y's pixels, then its padding.
CreateBMPRow ==
  /\ bmp.pc = "rows"
  /\ bmp.y >= 0
  /\ LET st == WritePadding(
                 WritePixels([buffer |-> bmp.buffer, offset |-> bmp.offset],
                             bmp.data, bmp.width, bmp.y, 0),
                 RowSize(bmp.width) - bmp.width * 3, 0)
     IN bmp' = [bmp EXCEPT !.buffer = st.buffer, !.offset = st.offset,
                           !.y = bmp.y - 1]
  /\ UNCHANGED <<imageVars, ditherVars, pipeVars, heap, frame, calc,
                 match, pv, entry>>

\* The loop's exit and return buffer.
CreateBMPReturn ==
  /\ bmp.pc = "rows"
  /\ bmp.y < 0
  /\ bmp' = [bmp EXCEPT !.pc = "returned"]
  /\ UNCHANGED <<imageVars, ditherVars, pipeVars, heap, frame, calc,
                 match, pv, entry>>

NextBMP ==
  \/ CreateBMPHeaders
  \/ CreateBMPRow
  \/ CreateBMPReturn

SpecBMP == InitBMP /\ [][NextBMP]_vars

\* ------------------------------------------------------------------------
\* Properties of createBMP
\* ------------------------------------------------------------------------
\* The little-endian number in the n bytes of buf that start at byte off.
ReadLE(buf, off, n) ==
  IF n = 2 THEN buf[off + 1] + 256 * buf[off + 2]
  ELSE buf[off + 1] + 256 * buf[off + 2] + 65536 * buf[off + 3]
         + 16777216 * buf[off + 4]

\* ceil(3W/4)*4, written out with floor division.
PaddedRow(w) == ((3 * w + 3) \div 4) * 4

\* C5: for a canvas of W >= 1 by H >= 1 pixels createBMP returns a buffer of
\* exactly 54 + ceil(3W/4)*4*H bytes, with 'BM' at bytes 0-1, that length at
\* bytes 2-5, 54 at bytes 10-13, W at bytes 18-21, H at bytes 22-25 and the
\* padded pixel-data size at bytes 34-37, all little-endian.
C5_BmpLengthAndHeader ==
  bmp.pc = "returned" =>
    LET size == PaddedRow(bmp.width) * bmp.height
    IN /\ Len(bmp.buffer) = 54 + size
       /\ bmp.buffer[1] = 66
       /\ bmp.buffer[2] = 77
       /\ ReadLE(bmp.buffer, 2, 4) = 54 + size
       /\ ReadLE(bmp.buffer, 10, 4) = 54
       /\ ReadLE(bmp.buffer, 18, 4) = bmp.width
       /\ ReadLE(bmp.buffer, 22, 4) = bmp.height
       /\ ReadLE(bmp.buffer, 34, 4) = size

\* A returned file with padded rows whose length needs two bytes.
C5_Witness ==
  /\ bmp.pc = "returned"
  /\ (3 * bmp.width) % 4 # 0
  /\ bmp.height >= 2
  /\ Len(bmp.buffer) > 255
  /\ bmp.buffer[4] # 0

\* C6: in the returned buffer the three bytes at 54 + (H-1-y)*rowSize + 3x are
\* the blue, green and red of pixel (x, y), rows bottom-up and alpha dropped;
\* the rowSize - 3W bytes that end every row are zero; and the write offset
\* after the last row equals the length of the buffer.
C6_BmpPixelLayout ==
  bmp.pc = "returned" =>
    LET w == bmp.width
        h == bmp.height
        rowSize == PaddedRow(w)
    IN /\ \A x \in 0..(w - 1), y \in 0..(h - 1) :
            LET at == 54 + (h - 1 - y) * rowSize + 3 * x
                px == bmp.data[y * w + x + 1]
            IN /\ bmp.buffer[at + 1] = px[3]
               /\ bmp.buffer[at + 2] = px[2]
               /\ bmp.buffer[at + 3] = px[1]
       /\ \A row \in 0..(h - 1), k \in (3 * w)..(rowSize - 1) :
            bmp.buffer[54 + row * rowSize + k + 1] = 0
       /\ bmp.offset = Len(bmp.buffer)

\* A returned file of several padded rows whose pixels differ in every
\* channel, none of them zero in the last pixel of the top row.
C6_Witness ==
  /\ bmp.pc = "returned"
  /\ bmp.height >= 2
  /\ bmp.width >= 2
  /\ (3 * bmp.width) % 4 # 0
  /\ bmp.data[1] # bmp.data[bmp.width * bmp.height]
  /\ bmp.data[1][1] # bmp.data[1][3]
  /\ bmp.data[bmp.width][1] # 0
  /\ bmp.data[bmp.width][2] # 0
  /\ bmp.data[bmp.width][3] # 0

\* ------------------------------------------------------------------------
\* validatePalette / parsePalette (palettes.js)
\*
\* A value offered as a channel is a JavaScript value: a number (kept as
\* twice its value, so that halves are exact), NaN, a string, or undefined
\* (the key is absent).  An entry, a palette and the pair may be absent or,
\* for the palette and the pair, a string instead of an object.
\* ------------------------------------------------------------------------
MaxDefects == 2

PaletteNames == <<"theoretical", "perceived">>
Channels == {"r", "g", "b"}
RoleSet == {Roles[k] : k \in 1..Len(Roles)}

Number(twice) == [kind |-> "number", twice |-> twice]
NaN == [kind |-> "nan", twice |-> 0]
AString == [kind |-> "string", twice |-> 0]
UndefinedValue == [kind |-> "undefined", twice |-> 0]

EntryInput(c) ==
  [present |-> TRUE, r |-> Number(2 * c.r), g |-> Number(2 * c.g),
   b |-> Number(2 * c.b)]

PaletteInput(pal) ==
  [kind |-> "object", colors |-> [role \in RoleSet |-> EntryInput(pal[role])]]

PairInput(pair) ==
  [kind |-> "object", theoretical |-> PaletteInput(pair.theoretical),
   perceived |-> PaletteInput(pair.perceived)]

\* typeof v !== "number"
NotNumber(v) == v.kind \notin {"number", "nan"}

OutOfRangeAbove(v) == v.kind = "number" /\ v.twice > 510

\* v < 0 || v > 255 (every comparison with NaN is false)
OutOfRange(v) == v.kind = "number" /\ (v.twice < 0 \/ v.twice > 510)

Passes == [ok |-> TRUE, error |-> "", palette |-> "", color |-> ""]
Throws(error, name, color) ==
  [ok |-> FALSE, error |-> error, palette |-> name, color |-> color]

\* The loop of validateSinglePalette over requiredColors, from colour k on.
RECURSIVE ValidateColorsFrom(_, _, _)
ValidateColorsFrom(k, palIn, name) ==
  IF k > Len(Roles) THEN Passes
  ELSE LET color == Roles[k]
           e == palIn.colors[color]
       IN IF ~e.present
            THEN Throws("Missing required color", name, color)
          ELSE IF NotNumber(e.r) \/ NotNumber(e.g) \/ NotNumber(e.b)
            THEN Throws("Invalid RGB values", name, color)
          ELSE IF OutOfRange(e.r) \/ OutOfRange(e.g) \/ OutOfRange(e.b)
            THEN Throws("RGB values must be 0-255", name, color)
          ELSE ValidateColorsFrom(k + 1, palIn, name)

ValidateSinglePalette(palIn, name) ==
  IF palIn.kind # "object"
    THEN Throws("palette must be an object", name, "")
    ELSE ValidateColorsFrom(1, palIn, name)

\* validatePalette(palettePair): returns true (Passes) or throws.
ValidatePalette(pairIn) ==
  IF pairIn.kind # "object" THEN Throws("Palette must be an object", "", "")
  ELSE IF pairIn.theoretical.kind = "absent"
    THEN Throws("Palette must have a property", "theoretical", "")
  ELSE IF pairIn.perceived.kind = "absent"
    THEN Throws("Palette must have a property", "perceived", "")
  ELSE LET t == ValidateSinglePalette(pairIn.theoretical, "theoretical")
       IN IF ~t.ok THEN t
          ELSE ValidateSinglePalette(pairIn.perceived, "perceived")

\* What JSON text can carry: no NaN (an absent key reads as undefined).
JsonPalette(palIn) ==
  \A role \in RoleSet, ch \in Channels : palIn.colors[role][ch].kind # "nan"

JsonRepresentable(pairIn) ==
  JsonPalette(pairIn.theoretical) /\ JsonPalette(pairIn.perceived)

\* The values the defects put in a channel: -1, 12.5, 256, NaN, a string,
\* undefined.
DefectValues ==
  {Number(-2), Number(25), Number(512), NaN, AString, UndefinedValue}

DefectRoles == {"black", "green"}

InitPalette ==
  /\ PipelineIdle
  /\ HeapIdle
  /\ FrameIdle
  /\ CalcIdle
  /\ MatchIdle
  /\ BmpIdle
  /\ EntryIdle
  /\ \E pair \in Palettes :
       pv = [pc |-> "build", input |-> PairInput(pair), defects |-> 0]

\* The caller's palette acquires one more defect before it is validated.
Damage ==
  /\ pv.pc = "build"
  /\ pv.defects < MaxDefects
  /\ \E name \in {"theoretical", "perceived"} :
       \/ \E role \in DefectRoles, ch \in Channels, v \in DefectValues :
            pv' = [pv EXCEPT !.input[name].colors[role][ch] = v,
                             !.defects = @ + 1]
       \/ \E role \in RoleSet :
            pv' = [pv EXCEPT !.input[name].colors[role].present = FALSE,
                             !.defects = @ + 1]
       \/ \E k \in {"absent", "string"} :
            pv' = [pv EXCEPT !.input[name].kind = k, !.defects = @ + 1]
       \/ \E k \in {"null", "string"} :
            pv' = [pv EXCEPT !.input.kind = k, !.defects = @ + 1]
  /\ UNCHANGED <<imageVars, ditherVars, pipeVars, heap, frame, calc,
                 match, bmp, entry>>

\* validatePalette(palettePair)
Validate ==
  /\ pv.pc = "build"
  /\ pv' = [pc |-> "validated", input |-> pv.input, defects |-> pv.defects,
            outcome |-> ValidatePalette(pv.input)]
  /\ UNCHANGED <<imageVars, ditherVars, pipeVars, heap, frame, calc,
                 match, bmp, entry>>

\* parsePalette(jsonString) on the JSON text of the input: the parsed pair
\* is returned when validatePalette did not throw.
Parse ==
  /\ pv.pc = "build"
  /\ JsonRepresentable(pv.input)
  /\ pv' = [pc |-> "parsed", input |-> pv.input, defects |-> pv.defects,
            outcome |-> ValidatePalette(pv.input)]
  /\ UNCHANGED <<imageVars, ditherVars, pipeVars, heap, frame, calc,
                 match, bmp, entry>>

NextPalette ==
  \/ Damage
  \/ Validate
  \/ Parse

SpecPalette == InitPalette /\ [][NextPalette]_vars

\* ------------------------------------------------------------------------
\* Properties of palette validation
\* ------------------------------------------------------------------------
Judged == pv.pc \in {"validated", "parsed"}

\* The pair and both palettes, where present, are objects.
Objects(pairIn) ==
  /\ pairIn.kind = "object"
  /\ pairIn.theoretical.kind \in {"object", "absent"}
  /\ pairIn.perceived.kind \in {"object", "absent"}

LacksPalette(pairIn, name) == pairIn[name].kind = "absent"
LacksRole(pairIn, name, role) ==
  pairIn[name].kind = "object" /\ ~pairIn[name].colors[role].present
NonNumeric(pairIn, name, role) ==
  /\ pairIn[name].kind = "object"
  /\ pairIn[name].colors[role].present
  /\ \E ch \in Channels :
       pairIn[name].colors[role][ch].kind \in {"string", "undefined"}
OutsideRange(pairIn, name, role) ==
  /\ pairIn[name].kind = "object"
  /\ pairIn[name].colors[role].present
  /\ \E ch \in Channels :
       LET v == pairIn[name].colors[role][ch]
       IN v.kind = "number" /\ (v.twice < 0 \/ v.twice > 2 * 255)

\* One of the four listed defects (C8) is present.
Defective(pairIn) ==
  \E name \in {"theoretical", "perceived"} :
    \/ LacksPalette(pairIn, name)
    \/ \E role \in RoleSet :
         \/ LacksRole(pairIn, name, role)
         \/ NonNumeric(pairIn, name, role)
         \/ OutsideRange(pairIn, name, role)

\* The thrown message names a fault the input really has.
NamesFault(pairIn, out) ==
  \/ /\ out.error = "Palette must have a property"
     /\ out.palette \in {"theoretical", "perceived"}
     /\ LacksPalette(pairIn, out.palette)
  \/ /\ out.error = "Missing required color"
     /\ out.palette \in {"theoretical", "perceived"}
     /\ out.color \in RoleSet
     /\ LacksRole(pairIn, out.palette, out.color)
  \/ /\ out.error = "Invalid RGB values"
     /\ out.palette \in {"theoretical", "perceived"}
     /\ out.color \in RoleSet
     /\ NonNumeric(pairIn, out.palette, out.color)
  \/ /\ out.error = "RGB values must be 0-255"
     /\ out.palette \in {"theoretical", "perceived"}
     /\ out.color \in RoleSet
     /\ OutsideRange(pairIn, out.palette, out.color)

\* C8: validatePalette throws, and does not return true, for every pair of
\* palette objects that lacks 'theoretical' or 'perceived', lacks one of the
\* six roles in either palette, or has an r, g or b that is not of number
\* type or lies outside 0..255, and the message names a missing property or
\* a palette and role that has such a fault; for the built-in pairs, which
\* are well formed, it returns true.
C8_DefectsRejectedAndNamed ==
  Judged =>
    /\ (Objects(pv.input) /\ Defective(pv.input)) =>
         ~pv.outcome.ok /\ NamesFault(pv.input, pv.outcome)
    /\ Defective(pv.input) => ~pv.outcome.ok
    /\ (\E pair \in Palettes : pv.input = PairInput(pair)) => pv.outcome = Passes

\* A pair with two defects in the perceived palette was rejected with the
\* message for the one met first, the out-of-range black.
C8_Witness ==
  /\ pv.pc = "validated"
  /\ Objects(pv.input)
  /\ OutsideRange(pv.input, "perceived", "black")
  /\ NonNumeric(pv.input, "perceived", "green")
  /\ pv.outcome = Throws("RGB values must be 0-255", "perceived", "black")

\* C9 as stated: every pair validatePalette or parsePalette accepts has, in
\* all six roles of both palettes, r, g and b that are integers in [0,255].
\* The code tests typeof and the two bounds only, so 12.5 and NaN pass.
C9_AcceptedChannelsAreBytes ==
  (Judged /\ pv.outcome.ok) =>
    \A name \in {"theoretical", "perceived"}, role \in RoleSet, ch \in Channels :
      LET v == pv.input[name].colors[role][ch]
      IN /\ v.kind = "number"
         /\ v.twice % 2 = 0
         /\ v.twice >= 0
         /\ v.twice <= 2 * 255

\* ------------------------------------------------------------------------
\* Presets (presets.js) and the palette registry (palettes.js)
\* ------------------------------------------------------------------------
\* A value that may be null or undefined: <<>> for none, <<v>> for v.
None == <<>>
Some(v) == <<v>>

CDR_PRESET ==
  [name |-> "cdr", exposure |-> Num(100), saturation |-> Num(100),
   toneMode |-> "contrast", contrast |-> Num(100), strength |-> Undefined,
   shadowBoost |-> Undefined, highlightCompress |-> Undefined,
   midpoint |-> Undefined, colorMethod |-> "rgb",
   ditherAlgorithm |-> "floyd-steinberg", compressDynamicRange |-> TRUE]

SCURVE_PRESET ==
  [name |-> "scurve", exposure |-> Num(100), saturation |-> Num(130),
   toneMode |-> "scurve", contrast |-> Num(100), strength |-> Num(90),
   shadowBoost |-> Num(0), highlightCompress |-> Num(150),
   midpoint |-> Num(50), colorMethod |-> "rgb",
   ditherAlgorithm |-> "floyd-steinberg", compressDynamicRange |-> FALSE]

VIVID_PRESET ==
  [name |-> "vivid", exposure |-> Num(110), saturation |-> Num(160),
   toneMode |-> "scurve", contrast |-> Num(100), strength |-> Num(70),
   shadowBoost |-> Num(10), highlightCompress |-> Num(130),
   midpoint |-> Num(50), colorMethod |-> "rgb",
   ditherAlgorithm |-> "floyd-steinberg", compressDynamicRange |-> FALSE]

SOFT_PRESET ==
  [name |-> "soft", exposure |-> Num(100), saturation |-> Num(110),
   toneMode |-> "contrast", contrast |-> Num(90), strength |-> Undefined,
   shadowBoost |-> Undefined, highlightCompress |-> Undefined,
   midpoint |-> Undefined, colorMethod |-> "rgb",
   ditherAlgorithm |-> "stucki", compressDynamicRange |-> TRUE]

GRAYSCALE_PRESET ==
  [name |-> "grayscale", exposure |-> Num(100), saturation |-> Num(0),
   toneMode |-> "scurve", contrast |-> Num(100), strength |-> Num(80),
   shadowBoost |-> Num(10), highlightCompress |-> Num(140),
   midpoint |-> Num(50), colorMethod |-> "lab",
   ditherAlgorithm |-> "floyd-steinberg", compressDynamicRange |-> TRUE]

PRESETS ==
  [cdr |-> CDR_PRESET, scurve |-> SCURVE_PRESET, vivid |-> VIVID_PRESET,
   soft |-> SOFT_PRESET, grayscale |-> GRAYSCALE_PRESET]

\* getPreset(name): a copy of the registry's entry, or null.
GetPreset(name) ==
  IF name \in DOMAIN PRESETS THEN Some(PRESETS[name]) ELSE None

PALETTE_PRESETS == [spectra6 |-> SPECTRA6, default |-> SPECTRA6]

\* getPalette(presetName): a copy of the registry's entry, or null.
GetPalette(presetName) ==
  IF presetName \in DOMAIN PALETTE_PRESETS
    THEN Some(PALETTE_PRESETS[presetName]) ELSE None

\* ------------------------------------------------------------------------
\* The entry paths: convertImage (index.js) and processImageFile (cli.js),
\* from their options to the call of processImage
\* ------------------------------------------------------------------------
EntryPaths == {"convertImage", "processImageFile"}
PalettePresetNames == {"spectra6", "default", "acep7", "Spectra6"}
ProcessingPresetNames == {"cdr", "soft", "balanced", "custom", "nosuch"}
DitherOptions == {None, Some("stucki"), Some("atkinson")}

BrokenPalette ==
  [PairInput(CUSTOM_PALETTE) EXCEPT !.perceived.colors["red"].present = FALSE]

\* --palette <json> on the command line, options.palette for convertImage.
PaletteOptions == {None, Some(PairInput(CUSTOM_PALETTE)), Some(BrokenPalette)}

InitEntry ==
  /\ PipelineIdle
  /\ HeapIdle
  /\ FrameIdle
  /\ CalcIdle
  /\ MatchIdle
  /\ BmpIdle
  /\ PvIdle
  /\ \E path \in EntryPaths, pp \in PalettePresetNames, po \in PaletteOptions,
        pr \in ProcessingPresetNames, d \in DitherOptions :
       entry = [pc |-> "palette", path |-> path, palettePreset |-> pp,
                paletteOption |-> po, processingPreset |-> pr,
                ditherOption |-> d, palette |-> None, params |-> None,
                kernel |-> "", error |-> ""]

\* processImageFile, "Get palette": a custom JSON is parsed and validated,
\* otherwise the preset is looked up.
CliPalette(e) ==
  IF e.paletteOption # None
    THEN IF ValidatePalette(e.paletteOption[1]).ok
           THEN [e EXCEPT !.palette = e.paletteOption, !.pc = "params"]
           ELSE [e EXCEPT !.error = "Error parsing palette JSON",
                          !.pc = "exit"]
    ELSE LET found == GetPalette(e.palettePreset)
         IN [e EXCEPT !.palette = IF found # None
                                    THEN Some(PairInput(found[1]))
                                    ELSE Some(PairInput(SPECTRA6)),
                      !.pc = "params"]

\* convertImage, "Get palette": palette || getPalette(palettePreset).
ConvertPalette(e) ==
  LET found == GetPalette(e.palettePreset)
      usePalette == IF e.paletteOption # None THEN e.paletteOption
                    ELSE IF found # None THEN Some(PairInput(found[1]))
                    ELSE None
  IN IF usePalette = None
       THEN [e EXCEPT !.error = "Unknown palette preset", !.pc = "thrown"]
       ELSE [e EXCEPT !.palette = usePalette, !.pc = "params"]

ResolvePalette ==
  /\ entry.pc = "palette"
  /\ entry' = IF entry.path = "processImageFile"
                THEN CliPalette(entry) ELSE ConvertPalette(entry)
  /\ UNCHANGED <<imageVars, ditherVars, pipeVars, heap, frame, calc,
                 match, bmp, pv>>

\* A parameter record in the shape of the registry's entries, under name n.
WithName(p, n) ==
  [name |-> n, exposure |-> p.exposure, saturation |-> p.saturation,
   toneMode |-> p.toneMode, contrast |-> p.contrast, strength |-> p.strength,
   shadowBoost |-> p.shadowBoost, highlightCompress |-> p.highlightCompress,
   midpoint |-> p.midpoint, colorMethod |-> p.colorMethod,
   ditherAlgorithm |-> p.ditherAlgorithm,
   compressDynamicRange |-> p.compressDynamicRange]

\* processImageFile, "Get processing parameters" and the overrides.
CliParams(e) ==
  LET preset == GetPreset(e.processingPreset)
      base == IF e.processingPreset # "custom" THEN preset
              ELSE Some(WithName(GetDefaultParams, ""))
  IN IF base = None
       THEN [e EXCEPT !.error = "Unknown processing preset", !.pc = "exit"]
       ELSE [e EXCEPT !.params =
                         IF e.ditherOption # None
                           THEN Some([base[1] EXCEPT !.ditherAlgorithm =
                                                     e.ditherOption[1]])
                           ELSE base,
                      !.pc = "call"]

\* convertImage, "Get processing params": mergeParams(params) when params
\* are given (here the dither algorithm alone), else the preset.
ConvertParams(e) ==
  IF e.ditherOption # None
    THEN [e EXCEPT !.params =
                     Some([WithName(GetDefaultParams, "") EXCEPT
                             !.ditherAlgorithm = e.ditherOption[1]]),
                   !.pc = "call"]
    ELSE LET preset == GetPreset(e.processingPreset)
         IN IF preset = None
              THEN [e EXCEPT !.error = "Unknown processing preset",
                             !.pc = "thrown"]
              ELSE [e EXCEPT !.params = preset, !.pc = "call"]

ResolveParams ==
  /\ entry.pc = "params"
  /\ entry' = IF entry.path = "processImageFile"
                THEN CliParams(entry) ELSE ConvertParams(entry)
  /\ UNCHANGED <<imageVars, ditherVars, pipeVars, heap, frame, calc,
                 match, bmp, pv>>

\* processImage(exifCorrectedCanvas, {palette, params, ...}) is entered: from
\* here on pixels are processed, with the kernel the name resolves to.
CallProcessImage ==
  /\ entry.pc = "call"
  /\ entry' = [entry EXCEPT
                 !.kernel =
                   IF DitherAlgorithmOf(entry.params[1]) \in DOMAIN DIFFUSION_MATRICES
                     THEN DitherAlgorithmOf(entry.params[1])
                     ELSE "floyd-steinberg",
                 !.pc = "processing"]
  /\ UNCHANGED <<imageVars, ditherVars, pipeVars, heap, frame, calc,
                 match, bmp, pv>>

NextEntry ==
  \/ ResolvePalette
  \/ ResolveParams
  \/ CallProcessImage

SpecEntry == InitEntry /\ [][NextEntry]_vars

\* ------------------------------------------------------------------------
\* Properties of the entry paths
\* ------------------------------------------------------------------------
\* C10 as stated: on both entry paths an unknown palette preset name is
\* reported as an error before pixel processing starts and is never replaced
\* by another palette.  processImageFile takes SPECTRA6 for such a name.
C10_UnknownPalettePresetIsError ==
  (/\ entry.pc \in {"params", "call", "processing"}
   /\ entry.paletteOption = None) =>
     entry.palettePreset \in DOMAIN PALETTE_PRESETS

\* ------------------------------------------------------------------------
\* Properties of the kernel lookup
\* ------------------------------------------------------------------------
\* One iteration of the dither loop with a given kernel, as a function of
\* the buffer and the accumulator.
DitherStepWith(st, p, w, h, method, outArr, dArr, dLab, matrix) ==
  LET old == WorkingColour(st.data[p + 1], st.errors[p + 1])
      colorIdx == FindClosestColor(old[1], old[2], old[3], method, dArr, dLab)
      new == outArr[colorIdx + 1]
  IN [data |-> [st.data EXCEPT ![p + 1] = <<new[1], new[2], new[3], @[4]>>],
      errors |-> Diffuse(st.errors, matrix, 1, p % w, p \div w, w, h,
                         QuantError(old, dArr[colorIdx + 1]))]

RECURSIVE DitherFromWith(_, _, _, _, _, _, _, _, _)
DitherFromWith(st, p, w, h, method, outArr, dArr, dLab, matrix) ==
  IF p = w * h THEN st.data
  ELSE DitherFromWith(
         DitherStepWith(st, p, w, h, method, outArr, dArr, dLab, matrix),
         p + 1, w, h, method, outArr, dArr, dLab, matrix)

\* The buffer a whole run over the tone-adjusted image yields with the
\* Floyd-Steinberg kernel, everything else as in the run at hand.
FloydSteinbergOutput ==
  LET dArr == PaletteToArray(palette.perceived)
  IN DitherFromWith([data |-> adjusted, errors |-> ZeroErrors(width * height)],
                    0, width, height, ColorMethodOf(params),
                    PaletteToArray(IF usePerceivedOutput THEN palette.perceived
                                   ELSE palette.theoretical),
                    dArr, DitherPaletteLabOf(ColorMethodOf(params), dArr),
                    DIFFUSION_MATRICES["floyd-steinberg"])

KernelNames == {"floyd-steinberg", "stucki", "burkes", "sierra"}

\* C11 as stated: with an algorithm name that is none of the four kernels'
\* (a missing name included) dithering raises no error and ends with the
\* buffer that 'floyd-steinberg' yields.  A name that every object inherits,
\* such as "constructor", is looked up successfully and the value found
\* cannot be iterated: the first pixel is written and a TypeError is thrown.
C11_UnknownAlgorithmIsFloydSteinberg ==
  (~skipDithering /\ params.ditherAlgorithm \notin KernelNames) =>
    /\ pc # "thrown"
    /\ pc \in {"put", "done"} => data = FloydSteinbergOutput

\* What does hold: the fall-back for the names that no object inherits, and
\* (as a check of FloydSteinbergOutput itself) the named kernel's own run.
FallbackForPlainNames ==
  (/\ ~skipDithering
   /\ pc \in {"put", "done"}
   /\ params.ditherAlgorithm \notin (KernelNames \ {"floyd-steinberg"})
   /\ params.ditherAlgorithm \notin ObjectPrototypeNames) =>
     data = FloydSteinbergOutput

\* ------------------------------------------------------------------------
\* Properties of the preset registry
\* ------------------------------------------------------------------------
DocumentedPresetNames == {"balanced", "dynamic", "vivid", "soft", "grayscale"}

\* C12 as stated: getPreset returns a parameter set for each documented name
\* balanced, dynamic, vivid, soft, grayscale, so that no entry path given one
\* of them (the default 'balanced' above all) ends in 'Unknown processing
\* preset'.  PRESETS registers cdr, scurve, vivid, soft and grayscale only.
C12_DocumentedPresetsResolve ==
  (entry.pc # "idle" /\ entry.processingPreset \in DocumentedPresetNames) =>
    entry.error # "Unknown processing preset"

\* ------------------------------------------------------------------------
\* getPreset, getPalette and mergeParams as a caller sees them: the objects
\* they return, and what assignments to those objects reach
\* ------------------------------------------------------------------------
MaxResults == 2
MaxWrites == 2

\* A property of a returned palette holds either the very object that
\* SPECTRA6 holds under that key, or an object the caller stored there.
SharedWith(key) == [shared |-> TRUE, key |-> key]
OwnObject(colours) == [shared |-> FALSE, colours |-> colours]

\* { ...preset } for a palette pair: a new object whose two properties are
\* copied by reference.
SpreadPalette == [theoretical |-> SharedWith("theoretical"),
                  perceived |-> SharedWith("perceived")]

\* { ...base, ...over }: every own property of over, then the rest of base.
Spread(base, over) ==
  [k \in (DOMAIN base) \union (DOMAIN over) |->
     IF k \in DOMAIN over THEN over[k] ELSE base[k]]

NoOverrides == [k \in {} |-> Undefined]

\* mergeParams(userParams = {})
MergeParams(userParams) == Spread(GetDefaultParams, userParams)

\* The colours a returned palette shows under key when read now.
ColoursAt(h, slot) ==
  IF slot.shared THEN h.SPECTRA6[slot.key] ELSE slot.colours

PaletteValue(h, own) ==
  [k \in DOMAIN own |-> ColoursAt(h, own[k])]

GetNames == {"spectra6", "default", "cdr", "soft", "nosuch"}
UserParams ==
  {NoOverrides,
   [exposure |-> Num(150)],
   [saturation |-> Undefined],
   [contrast |-> Num(120), toneMode |-> "scurve"]}
WrittenLevels == {0, 77}
WrittenRoles == {"black", "white"}
WrittenFields == {"exposure", "saturation"}

InitHeap ==
  /\ PipelineIdle
  /\ MatchIdle
  /\ BmpIdle
  /\ PvIdle
  /\ EntryIdle
  /\ FrameIdle
  /\ CalcIdle
  /\ heap = [pc |-> "ready", SPECTRA6 |-> SPECTRA6, PRESETS |-> PRESETS,
             results |-> <<>>, writes |-> 0]

HeapUnchanged ==
  UNCHANGED <<imageVars, ditherVars, pipeVars, match, bmp, pv, entry,
              frame, calc>>

Returned(result) ==
  /\ heap.pc = "ready"
  /\ Len(heap.results) < MaxResults
  /\ heap' = [heap EXCEPT !.results = Append(@, result)]
  /\ HeapUnchanged

\* getPalette(presetName): both registered names hold the one SPECTRA6.
CallGetPalette ==
  \E presetName \in GetNames :
    Returned(
      IF presetName \in DOMAIN PALETTE_PRESETS
        THEN [fn |-> "getPalette", arg |-> presetName, null |-> FALSE,
              own |-> SpreadPalette,
              returned |-> PaletteValue(heap, SpreadPalette)]
        ELSE [fn |-> "getPalette", arg |-> presetName, null |-> TRUE])

\* getPreset(name)
CallGetPreset ==
  \E name \in GetNames :
    Returned(
      IF name \in DOMAIN heap.PRESETS
        THEN [fn |-> "getPreset", arg |-> name, null |-> FALSE,
              own |-> heap.PRESETS[name],
              returned |-> heap.PRESETS[name]]
        ELSE [fn |-> "getPreset", arg |-> name, null |-> TRUE])

\* mergeParams(userParams)
CallMergeParams ==
  \E userParams \in UserParams :
    Returned([fn |-> "mergeParams", arg |-> userParams, null |-> FALSE,
              own |-> MergeParams(userParams),
              returned |-> MergeParams(userParams)])

Writable(i) ==
  /\ heap.pc = "ready"
  /\ heap.writes < MaxWrites
  /\ i \in 1..Len(heap.results)
  /\ ~heap.results[i].null

\* result[key][role][channel] = level, on a palette that was returned: the
\* assignment lands in the object the property refers to.
WriteChannel ==
  \E i \in 1..MaxResults, key \in {"theoretical", "perceived"},
     role \in WrittenRoles, channel \in Channels, level \in WrittenLevels :
    /\ Writable(i)
    /\ heap.results[i].fn = "getPalette"
    /\ LET slot == heap.results[i].own[key] IN
         heap' =
           IF slot.shared
             THEN [heap EXCEPT !.SPECTRA6[slot.key][role][channel] = level,
                               !.writes = @ + 1]
             ELSE [heap EXCEPT
                     !.results[i].own[key] =
                        OwnObject([slot.colours EXCEPT
                                     ![role][channel] = level]),
                     !.writes = @ + 1]
    /\ HeapUnchanged

\* result[key] = { ...result[key] }, the caller giving the returned palette
\* a colour table of its own.
WriteTable ==
  \E i \in 1..MaxResults, key \in {"theoretical", "perceived"} :
    /\ Writable(i)
    /\ heap.results[i].fn = "getPalette"
    /\ heap' = [heap EXCEPT
                  !.results[i].own[key] =
                     OwnObject(ColoursAt(heap, heap.results[i].own[key])),
                  !.writes = @ + 1]
    /\ HeapUnchanged

\* result[field] = value, on a returned preset or merged parameter set.
WriteField ==
  \E i \in 1..MaxResults, field \in WrittenFields, level \in WrittenLevels :
    /\ Writable(i)
    /\ heap.results[i].fn \in {"getPreset", "mergeParams"}
    /\ heap' = [heap EXCEPT !.results[i].own[field] = Num(level),
                            !.writes = @ + 1]
    /\ HeapUnchanged

NextHeap ==
  \/ CallGetPalette
  \/ CallGetPreset
  \/ CallMergeParams
  \/ WriteChannel
  \/ WriteTable
  \/ WriteField

SpecHeap == InitHeap /\ [][NextHeap]_vars

\* ------------------------------------------------------------------------
\* Properties of the returned copies
\* ------------------------------------------------------------------------
ResultsOf(fn) ==
  {i \in 1..Len(heap.results) :
     heap.results[i].fn = fn /\ ~heap.results[i].null}

\* C13 as stated: whatever a caller assigns to an object that getPreset or
\* getPalette returned, nested colour entries included, SPECTRA6 and PRESETS
\* keep their values and every later call returns the registered value.
\* getPalette copies one level only: result.perceived is SPECTRA6.perceived
\* itself, so result.perceived.white.r = 0 changes SPECTRA6 and every palette
\* returned afterwards.
C13_ReturnedCopiesAreIndependent ==
  heap.pc # "idle" =>
    /\ heap.SPECTRA6 = SPECTRA6
    /\ heap.PRESETS = PRESETS
    /\ \A i \in ResultsOf("getPalette") :
         heap.results[i].returned = PALETTE_PRESETS[heap.results[i].arg]
    /\ \A i \in ResultsOf("getPreset") :
         heap.results[i].returned = PRESETS[heap.results[i].arg]

\* What does hold: the presets, which are flat, and the top level of a
\* returned palette.
PresetCopiesAreIndependent ==
  heap.pc # "idle" =>
    /\ heap.PRESETS = PRESETS
    /\ \A i \in ResultsOf("getPreset") :
         heap.results[i].returned = PRESETS[heap.results[i].arg]
    /\ \A i \in ResultsOf("getPalette") :
         DOMAIN heap.results[i].returned = {"theoretical", "perceived"}

NumericFields ==
  {"exposure", "saturation", "contrast", "strength", "shadowBoost",
   "highlightCompress", "midpoint"}

HasDefinedValue(obj, field) ==
  /\ field \in DOMAIN obj
  /\ field \in NumericFields => IsDefined(obj[field])

\* C14 as stated: in the object mergeParams(userParams) returns, every field
\* of getDefaultParams() is present with a defined value, the user's for a
\* field the user supplied and the default for any other; mergeParams()
\* equals getDefaultParams().  The spread copies a property that the user
\* object holds with the value undefined over the default.
C14_MergedParamsComplete ==
  \A i \in ResultsOf("mergeParams") :
    LET userParams == heap.results[i].arg
        merged == heap.results[i].returned
    IN /\ \A field \in DOMAIN GetDefaultParams :
            /\ HasDefinedValue(merged, field)
            /\ merged[field] = IF field \in DOMAIN userParams
                                 THEN userParams[field]
                                 ELSE GetDefaultParams[field]
       /\ userParams = NoOverrides => merged = GetDefaultParams

\* What does hold: the overlay itself, property by property.
MergedParamsOverlay ==
  \A i \in ResultsOf("mergeParams") :
    LET userParams == heap.results[i].arg
        merged == heap.results[i].returned
    IN /\ \A field \in DOMAIN GetDefaultParams :
            /\ field \in DOMAIN merged
            /\ merged[field] = IF field \in DOMAIN userParams
                                 THEN userParams[field]
                                 ELSE GetDefaultParams[field]
       /\ userParams = NoOverrides => merged = GetDefaultParams

\* ------------------------------------------------------------------------
\* Properties of paletteToArray
\* ------------------------------------------------------------------------
ArrayOrder ==
  <<"black", "white", "yellow", "red", "reserved", "blue", "green">>

IsArrayOf(array, colours) ==
  /\ Len(array) = 7
  /\ \A k \in 1..7 :
       array[k] = IF ArrayOrder[k] = "reserved"
                    THEN <<0, 0, 0>>
                    ELSE <<colours[ArrayOrder[k]].r, colours[ArrayOrder[k]].g,
                           colours[ArrayOrder[k]].b>>

\* C15: each array that paletteToArray built for the ditherer has exactly
\* seven triples, the colours of one side of the palette in the order black,
\* white, yellow, red, reserved, blue, green, with (0,0,0) at index 4
\* (position 5 here) whatever the palette holds.
C15_PaletteArrayLayout ==
  (~skipDithering /\ pc \in {"dither", "thrown", "put", "done"}) =>
    /\ \E side \in {palette.theoretical, palette.perceived} :
         IsArrayOf(outputPaletteArray, side)
    /\ \E side \in {palette.theoretical, palette.perceived} :
         IsArrayOf(ditherPaletteArray, side)
    /\ outputPaletteArray[ReservedIndex + 1] = <<0, 0, 0>>
    /\ ditherPaletteArray[ReservedIndex + 1] = <<0, 0, 0>>

\* Arrays built from a palette none of whose colours is (0,0,0).
C15_Witness ==
  /\ pc = "dither"
  /\ palette = CUSTOM_PALETTE
  /\ Len(outputPaletteArray) = 7
  /\ \A role \in RoleSet :
       /\ palette.theoretical[role] # RGB(0, 0, 0)
       /\ palette.perceived[role] # RGB(0, 0, 0)

\* ------------------------------------------------------------------------
\* processImage, the canvases: the objects it creates and the object each
\* step writes.  A canvas is an object with a width, a height and a content;
\* the content is a grid of pixels while every draw so far was an exact copy
\* or a quarter turn, and is only described once it was resampled or
\* processed.
\* ------------------------------------------------------------------------
MaxSrc == 2
MaxDisplay == 3

DEFAULT_DISPLAY_WIDTH == 800
DEFAULT_DISPLAY_HEIGHT == 480

Grid(rows) == [kind |-> "grid", rows |-> rows, of |-> "", draw |-> <<>>]
Resampled(of, draw) ==
  [kind |-> "resampled", rows |-> <<>>, of |-> of, draw |-> draw]
Processed(of) == [kind |-> "processed", rows |-> <<>>, of |-> of, draw |-> <<>>]
Blank == Grid(<<>>)

CanvasObject(w, h, content) == [width |-> w, height |-> h, content |-> content]
NoObject == CanvasObject(0, 0, Blank)

ObjectNames ==
  {"source", "canvas", "originalCanvas", "rotatedCanvas", "tempCanvas",
   "outputCanvas", "imageData"}

\* The source picture: pixel (x, y) has the value y * w + x + 1.
SourceRows(w, h) == [y \in 1..h |-> [x \in 1..w |-> (y - 1) * w + x]]

\* Math.round(a / b) for a >= 0, b > 0
RoundRatio(a, b) == (2 * a + b) \div (2 * b)

\* rotate90Clockwise: a canvas of canvas.height x canvas.width on which the
\* canvas is drawn after translate(canvas.height, 0) and rotate(PI / 2).
Rotate90Clockwise(c) ==
  CanvasObject(c.height, c.width,
    IF c.content.kind = "grid"
      THEN Grid([y \in 1..c.width |->
                   [x \in 1..c.height |-> c.content.rows[c.height - x + 1][y]]])
      ELSE c.content)

\* resizeImageCover: the scaled size and the crop offsets.
ScaledSize(srcWidth, srcHeight, outputWidth, outputHeight) ==
  IF outputWidth * srcHeight >= outputHeight * srcWidth
    THEN <<RoundRatio(srcWidth * outputWidth, srcWidth),
           RoundRatio(srcHeight * outputWidth, srcWidth)>>
    ELSE <<RoundRatio(srcWidth * outputHeight, srcHeight),
           RoundRatio(srcHeight * outputHeight, srcHeight)>>

TempCanvasOf(c, outputWidth, outputHeight) ==
  LET scaled == ScaledSize(c.width, c.height, outputWidth, outputHeight)
  IN CanvasObject(scaled[1], scaled[2],
                  Resampled("canvas", <<0, 0, scaled[1], scaled[2]>>))

ResizeImageCover(temp, outputWidth, outputHeight) ==
  CanvasObject(outputWidth, outputHeight,
    Resampled("tempCanvas",
              <<RoundRatio(temp.width - outputWidth, 2),
                RoundRatio(temp.height - outputHeight, 2),
                outputWidth, outputHeight>>))

\* const { displayWidth = DEFAULT_DISPLAY_WIDTH, ... } = options
DisplayWidthOf(options) ==
  IF options.displayWidth = None
    THEN DEFAULT_DISPLAY_WIDTH ELSE options.displayWidth[1]
DisplayHeightOf(options) ==
  IF options.displayHeight = None
    THEN DEFAULT_DISPLAY_HEIGHT ELSE options.displayHeight[1]

FinalSizeNeverSwapped(isPortrait, skipRotation, displayWidth, displayHeight) ==
  <<displayWidth, displayHeight>>

\* finalWidth, finalHeight
FinalSize(isPortrait, skipRotation, displayWidth, displayHeight) ==
  LET displayIsLandscape == displayWidth > displayHeight
  IN IF isPortrait /\ skipRotation /\ displayIsLandscape
       THEN <<displayHeight, displayWidth>>
       ELSE <<displayWidth, displayHeight>>

DisplayOptions == {None} \union {Some(n) : n \in 1..MaxDisplay}

InitFrame ==
  /\ PipelineIdle
  /\ MatchIdle
  /\ BmpIdle
  /\ PvIdle
  /\ EntryIdle
  /\ HeapIdle
  /\ CalcIdle
  /\ \E w \in 1..MaxSrc, h \in 1..MaxSrc, isImageData \in BOOLEAN,
        dw \in DisplayOptions, dh \in DisplayOptions, skip \in BOOLEAN,
        skipD \in BOOLEAN :
       frame =
         [pc |-> "create",
          isImageData |-> isImageData,
          options |-> [displayWidth |-> dw, displayHeight |-> dh,
                       skipRotation |-> skip, skipDithering |-> skipD],
          objects |-> [n \in ObjectNames |->
                         IF n = "source"
                           THEN CanvasObject(w, h, Grid(SourceRows(w, h)))
                           ELSE NoObject],
          canvas |-> "",
          isPortrait |-> FALSE,
          finalSize |-> <<0, 0>>,
          steps |-> <<>>,
          result |-> [canvas |-> "", originalCanvas |-> ""]]

OriginalCanvasBlank(c) == CanvasObject(c.width, c.height, Blank)

\* createCanvas(canvas.width, canvas.height) and drawImage(canvas, 0, 0) on
\* it: a new canvas of the same size holding the same pixels.
OriginalCanvasOf(c) == CanvasObject(c.width, c.height, c.content)

FrameUnchanged ==
  UNCHANGED <<imageVars, ditherVars, pipeVars, match, bmp, pv, entry,
              heap, calc>>

\* canvas = createCanvas(source.width, source.height), then putImageData
\* or drawImage of the source at (0, 0).
CreateCanvas ==
  /\ frame.pc = "create"
  /\ frame' =
       [frame EXCEPT
          !.objects["canvas"] = frame.objects["source"],
          !.canvas = "canvas",
          !.steps = Append(@, IF frame.isImageData
                                THEN "putImageData" ELSE "drawImage"),
          !.pc = "save"]
  /\ FrameUnchanged

\* originalCanvas = createCanvas(canvas.width, canvas.height), drawImage
SaveOriginal ==
  /\ frame.pc = "save"
  /\ frame' =
       [frame EXCEPT
          !.objects["originalCanvas"] =
             OriginalCanvasOf(frame.objects[frame.canvas]),
          !.steps = Append(@, "save"),
          !.pc = "rotate"]
  /\ FrameUnchanged

\* isPortrait, and the rotation of a portrait canvas
Rotate ==
  /\ frame.pc = "rotate"
  /\ LET c == frame.objects[frame.canvas]
         isPortrait == c.height > c.width
     IN frame' =
          IF isPortrait /\ ~frame.options.skipRotation
            THEN [frame EXCEPT
                    !.isPortrait = isPortrait,
                    !.objects["rotatedCanvas"] = Rotate90Clockwise(c),
                    !.canvas = "rotatedCanvas",
                    !.steps = Append(@, "rotate"),
                    !.pc = "resize"]
            ELSE [frame EXCEPT !.isPortrait = isPortrait, !.pc = "resize"]
  /\ FrameUnchanged

\* finalWidth, finalHeight, and resizeImageCover when the canvas differs
Resize ==
  /\ frame.pc = "resize"
  /\ LET c == frame.objects[frame.canvas]
         final == FinalSize(frame.isPortrait, frame.options.skipRotation,
                            DisplayWidthOf(frame.options),
                            DisplayHeightOf(frame.options))
         temp == TempCanvasOf(c, final[1], final[2])
     IN frame' =
          IF c.width # final[1] \/ c.height # final[2]
            THEN [frame EXCEPT
                    !.finalSize = final,
                    !.objects["tempCanvas"] = temp,
                    !.objects["outputCanvas"] =
                       ResizeImageCover(temp, final[1], final[2]),
                    !.canvas = "outputCanvas",
                    !.steps = Append(@, "resize"),
                    !.pc = "getImageData"]
            ELSE [frame EXCEPT !.finalSize = final, !.pc = "getImageData"]
  /\ FrameUnchanged

\* imageData = ctx.getImageData(0, 0, canvas.width, canvas.height): a new
\* buffer holding the canvas's pixels.
GetImageData ==
  /\ frame.pc = "getImageData"
  /\ frame' = [frame EXCEPT
                 !.objects["imageData"] = frame.objects[frame.canvas],
                 !.pc = "preprocess"]
  /\ FrameUnchanged

\* preprocessImage(imageData, ...) writes imageData.data in place.
FramePreprocess ==
  /\ frame.pc = "preprocess"
  /\ frame' = [frame EXCEPT
                 !.objects["imageData"].content = Processed("preprocessImage"),
                 !.steps = Append(@, "preprocess"),
                 !.pc = "dither"]
  /\ FrameUnchanged

\* if (!skipDithering) applyErrorDiffusionDither(imageData, ...)
FrameDither ==
  /\ frame.pc = "dither"
  /\ frame' =
       IF ~frame.options.skipDithering
         THEN [frame EXCEPT
                 !.objects["imageData"].content =
                    Processed("applyErrorDiffusionDither"),
                 !.steps = Append(@, "dither"),
                 !.pc = "putImageData"]
         ELSE [frame EXCEPT !.pc = "putImageData"]
  /\ FrameUnchanged

\* ctx.putImageData(imageData, 0, 0); return { canvas, originalCanvas }
FrameReturn ==
  /\ frame.pc = "putImageData"
  /\ frame' = [frame EXCEPT
                 !.objects[frame.canvas].content =
                    frame.objects["imageData"].content,
                 !.result = [canvas |-> frame.canvas,
                             originalCanvas |-> "originalCanvas"],
                 !.pc = "returned"]
  /\ FrameUnchanged

NextFrame ==
  \/ CreateCanvas
  \/ SaveOriginal
  \/ Rotate
  \/ Resize
  \/ GetImageData
  \/ FramePreprocess
  \/ FrameDither
  \/ FrameReturn

SpecFrame == InitFrame /\ [][NextFrame]_vars

\* ------------------------------------------------------------------------
\* Properties of the canvases processImage returns
\* ------------------------------------------------------------------------
StepsDone == {frame.steps[k] : k \in 1..Len(frame.steps)}

StepIndex(name) == CHOOSE k \in 1..Len(frame.steps) : frame.steps[k] = name

RequestedWidth ==
  IF frame.options.displayWidth = None
    THEN 800 ELSE frame.options.displayWidth[1]
RequestedHeight ==
  IF frame.options.displayHeight = None
    THEN 480 ELSE frame.options.displayHeight[1]

SourceIsPortrait ==
  frame.objects["source"].height > frame.objects["source"].width

\* C16: the returned canvas is displayWidth x displayHeight (800 x 480 when
\* none is given), except for a portrait source with skipRotation on a
\* landscape display, where it is displayHeight x displayWidth; a portrait
\* source is turned a quarter clockwise before any resize unless
\* skipRotation is set, and no other source is turned.
C16_ReturnedCanvasSize ==
  LET src == frame.objects["source"]
      out == frame.objects[frame.result.canvas]
      turned == frame.objects[frame.canvas]
      swapped == /\ SourceIsPortrait
                 /\ frame.options.skipRotation
                 /\ RequestedWidth > RequestedHeight
  IN /\ frame.pc = "returned" =>
          /\ out.width = IF swapped THEN RequestedHeight ELSE RequestedWidth
          /\ out.height = IF swapped THEN RequestedWidth ELSE RequestedHeight
          /\ "rotate" \in StepsDone <=>
               (SourceIsPortrait /\ ~frame.options.skipRotation)
          /\ ("rotate" \in StepsDone /\ "resize" \in StepsDone) =>
               StepIndex("rotate") < StepIndex("resize")
     \* the canvas that enters the resize
     /\ (frame.pc = "resize" /\ "rotate" \in StepsDone) =>
          /\ turned.width = src.height
          /\ turned.height = src.width
          /\ \A x \in 0..(src.width - 1), y \in 0..(src.height - 1) :
               turned.content.rows[x + 1][src.height - y] =
                 src.content.rows[y + 1][x + 1]

\* A portrait source, kept unrotated, on a landscape display.
C16_Witness ==
  /\ frame.pc = "returned"
  /\ SourceIsPortrait
  /\ frame.options.skipRotation
  /\ RequestedWidth = 3
  /\ RequestedHeight = 2
  /\ frame.objects[frame.result.canvas].width = 2
  /\ frame.objects[frame.result.canvas].height = 3

\* C17: the originalCanvas that processImage returns has the source's width,
\* height and pixels, whatever the options, and the source object itself is
\* as it was given: no later step writes either.
C17_OriginalCanvasUntouched ==
  /\ frame.pc \notin {"idle", "create", "save"} =>
       LET src == frame.objects["source"]
           original == frame.objects["originalCanvas"]
       IN /\ original.width = src.width
          /\ original.height = src.height
          /\ original.content = Grid(SourceRows(src.width, src.height))
          /\ src.content = Grid(SourceRows(src.width, src.height))
  /\ frame.pc = "returned" =>
       /\ frame.result.originalCanvas = "originalCanvas"
       /\ frame.result.canvas # frame.result.originalCanvas
       /\ frame.result.canvas # "source"

\* A run in which the canvas was rotated, resized, tone adjusted and
\* dithered after the copy was made.
C17_Witness ==
  /\ frame.pc = "returned"
  /\ {"rotate", "resize", "preprocess", "dither"} \subseteq StepsDone
  /\ frame.objects[frame.result.canvas].content.kind = "processed"
  /\ frame.objects["originalCanvas"].content.kind = "grid"

\* ------------------------------------------------------------------------
\* Properties of the order of the pipeline's stages
\* ------------------------------------------------------------------------
InDither == pc \in {"dither_init", "dither", "thrown"}

ToneAdjusted == PreprocessImage(source, params, palette.perceived)

\* C18: with skipDithering the dither step never runs and the buffer put on
\* the returned canvas is exactly the tone-adjusted buffer; without it the
\* dither step is entered once, from the end of preprocessImage only, when
\* the whole buffer has been tone adjusted, visits each pixel once and is
\* never entered again.
C18_DitherOnceAfterToneAdjustment ==
  /\ [](skipDithering =>
          /\ ~InDither
          /\ chosen = <<>>
          /\ pc \in {"put", "done"} => data = ToneAdjusted
          /\ pc = "done" => canvas = ToneAdjusted)
  /\ [](~skipDithering =>
          /\ InDither =>
               /\ adjusted = ToneAdjusted
               /\ Len(adjusted) = width * height
          /\ pc = "dither" => Len(chosen) <= width * height
          /\ pc \in {"put", "done"} => Len(chosen) = width * height)
  /\ [][pc' = "dither_init" => pc = "preprocess"]_vars
  /\ [][(pc \in {"put", "done", "thrown"}) =>
          (pc' \notin {"dither_init", "dither"})]_vars

\* A preview run: dithering skipped, and the canvas holds a colour that is
\* not in the palette.
C18_Witness ==
  /\ skipDithering
  /\ pc = "done"
  /\ canvas # source
  /\ \E i \in 1..Len(canvas) :
       /\ RGBOf(canvas[i]) \notin RoleColours(palette.theoretical)
       /\ RGBOf(canvas[i]) \notin RoleColours(palette.perceived)

\* ------------------------------------------------------------------------
\* The colour-space and tone functions called on their own, on sampled
\* pixels and on parameter values from the documented ranges: exposure
\* 0.5-2.0, saturation 0.0-2.0, contrast 0.5-2.0, strength and shadowBoost
\* 0.0-1.0, highlightCompress 0.5-5.0, midpoint 0.3-0.7
\* ------------------------------------------------------------------------
SampleLevels == {0, 1, 77, 128, 254, 255}
ToneLevels == {0, 77, 128, 255}
ExposureRange == {50, 100, 130, 200}
SaturationRange == {0, 50, 100, 150, 200}
ContrastRange == {50, 100, 120, 200}
StrengthRange == {0, 50, 100}
ShadowBoostRange == {0, 100}
HighlightCompressRange == {50, 500}
MidpointRange == {30, 50, 70}
LabLs == {-10, 0, 50, 100, 120}
LabABs == {-128, 0, 127}
ErrorSamples == {-300 * ErrUnit, -1, 0, ErrUnit \div 2, 300 * ErrUnit}

NoArgs == [exposure |-> 100, saturation |-> 100, contrast |-> 100,
           strength |-> 0, shadowBoost |-> 0, highlightCompress |-> 50,
           midpoint |-> 50]

CalcCall(fn, px, args, lab, err) ==
  [pc |-> "call", fn |-> fn, px |-> px, args |-> args, lab |-> lab,
   err |-> err, assigned |-> <<>>, stored |-> <<>>]

InitCalc ==
  /\ PipelineIdle
  /\ MatchIdle
  /\ BmpIdle
  /\ PvIdle
  /\ EntryIdle
  /\ HeapIdle
  /\ FrameIdle
  /\ \/ \E r \in SampleLevels, g \in SampleLevels, b \in SampleLevels :
          calc = CalcCall("rgbToLab", <<r, g, b, 255>>, NoArgs,
                          <<0, 0, 0>>, <<0, 0, 0>>)
     \/ \E L \in LabLs, a \in LabABs, b \in LabABs :
          calc = CalcCall("labToRgb", <<0, 0, 0, 255>>, NoArgs,
                          <<L * FP, a * FP, b * FP>>, <<0, 0, 0>>)
     \/ \E r \in ToneLevels, g \in ToneLevels, b \in ToneLevels :
          \/ \E v \in ExposureRange :
               calc = CalcCall("applyExposure", <<r, g, b, 255>>,
                               [NoArgs EXCEPT !.exposure = v],
                               <<0, 0, 0>>, <<0, 0, 0>>)
          \/ \E v \in SaturationRange :
               calc = CalcCall("applySaturation", <<r, g, b, 255>>,
                               [NoArgs EXCEPT !.saturation = v],
                               <<0, 0, 0>>, <<0, 0, 0>>)
          \/ \E v \in ContrastRange :
               calc = CalcCall("applyContrast", <<r, g, b, 255>>,
                               [NoArgs EXCEPT !.contrast = v],
                               <<0, 0, 0>>, <<0, 0, 0>>)
          \/ \E e \in ErrorSamples, f \in ErrorSamples :
               calc = CalcCall("workingColour", <<r, g, b, 255>>, NoArgs,
                               <<0, 0, 0>>, <<e, f, -e>>)
     \/ \E r \in ToneLevels, st \in StrengthRange, sb \in ShadowBoostRange,
           hc \in HighlightCompressRange, mp \in MidpointRange :
          calc = CalcCall("applyScurveTonemap", <<r, 255 - r, 77, 255>>,
                          [NoArgs EXCEPT !.strength = st, !.shadowBoost = sb,
                                         !.highlightCompress = hc,
                                         !.midpoint = mp],
                          <<0, 0, 0>>, <<0, 0, 0>>)

CalcUnchanged ==
  UNCHANGED <<imageVars, ditherVars, pipeVars, match, bmp, pv, entry,
              heap, frame>>

\* What a call leaves: the values assigned to the pixel's channels and the
\* pixel as the buffer then holds it.
CalcReturn(assigned, stored) ==
  calc' = [calc EXCEPT !.assigned = assigned, !.stored = stored,
                       !.pc = "returned"]

\* rgbToLab(r, g, b)
CalcRgbToLab ==
  /\ calc.pc = "call"
  /\ calc.fn = "rgbToLab"
  /\ calc' = [calc EXCEPT
                !.lab = RgbToLab(calc.px[1], calc.px[2], calc.px[3]),
                !.pc = "lab"]
  /\ CalcUnchanged

\* labToRgb(L, a, b), on a given Lab triple or on rgbToLab's result
CalcLabToRgb ==
  /\ \/ calc.pc = "call" /\ calc.fn = "labToRgb"
     \/ calc.pc = "lab" /\ calc.fn = "rgbToLab"
  /\ LET rgb == LabToRgb(calc.lab[1], calc.lab[2], calc.lab[3])
     IN CalcReturn(rgb, <<Uint8Clamp(rgb[1]), Uint8Clamp(rgb[2]),
                          Uint8Clamp(rgb[3]), calc.px[4]>>)
  /\ CalcUnchanged

CalcApplyExposure ==
  /\ calc.pc = "call"
  /\ calc.fn = "applyExposure"
  /\ LET v == calc.args.exposure
     IN CalcReturn(
          IF v = 100 THEN <<>>
          ELSE <<ExposureValue(calc.px[1], v), ExposureValue(calc.px[2], v),
                 ExposureValue(calc.px[3], v)>>,
          ApplyExposure(<<calc.px>>, v)[1])
  /\ CalcUnchanged

CalcApplyContrast ==
  /\ calc.pc = "call"
  /\ calc.fn = "applyContrast"
  /\ LET v == calc.args.contrast
     IN CalcReturn(
          IF v = 100 THEN <<>>
          ELSE <<ContrastValue(calc.px[1], v), ContrastValue(calc.px[2], v),
                 ContrastValue(calc.px[3], v)>>,
          ApplyContrast(<<calc.px>>, v)[1])
  /\ CalcUnchanged

CalcApplySaturation ==
  /\ calc.pc = "call"
  /\ calc.fn = "applySaturation"
  /\ LET v == calc.args.saturation
         grey == calc.px[1] = calc.px[2] /\ calc.px[2] = calc.px[3]
     IN CalcReturn(
          IF v = 100 \/ grey THEN <<>>
          ELSE SaturationValues(calc.px, Num(v)),
          ApplySaturation(<<calc.px>>, Num(v))[1])
  /\ CalcUnchanged

CalcApplyScurveTonemap ==
  /\ calc.pc = "call"
  /\ calc.fn = "applyScurveTonemap"
  /\ LET a == calc.args
         V(c) == ScurveValue(c, Num(a.strength), Num(a.shadowBoost),
                             Num(a.highlightCompress), Num(a.midpoint))
     IN CalcReturn(
          IF a.strength = 0 THEN <<>>
          ELSE <<V(calc.px[1]), V(calc.px[2]), V(calc.px[3])>>,
          ApplyScurveTonemap(<<calc.px>>, Num(a.strength), Num(a.shadowBoost),
                             Num(a.highlightCompress), Num(a.midpoint))[1])
  /\ CalcUnchanged

\* oldR, oldG, oldB of the ditherer for one pixel and its accumulated error
CalcWorkingColour ==
  /\ calc.pc = "call"
  /\ calc.fn = "workingColour"
  /\ CalcReturn(WorkingColour(calc.px, calc.err), calc.px)
  /\ CalcUnchanged

NextCalc ==
  \/ CalcRgbToLab
  \/ CalcLabToRgb
  \/ CalcApplyExposure
  \/ CalcApplyContrast
  \/ CalcApplySaturation
  \/ CalcApplyScurveTonemap
  \/ CalcWorkingColour

SpecCalc == InitCalc /\ [][NextCalc]_vars

\* ------------------------------------------------------------------------
\* Properties of the colour-space and tone functions
\* ------------------------------------------------------------------------
RoundTripDone == calc.pc = "returned" /\ calc.fn = "rgbToLab"

\* C19: labToRgb(rgbToLab(r, g, b)) is within one level of (r, g, b) on
\* every channel.
C19_LabRoundTripWithinOne ==
  RoundTripDone =>
    \A c \in 1..3 : Abs(calc.assigned[c] - calc.px[c]) <= 1

\* The round trip of a saturated colour with one channel near black and
\* one near full.
C19_Witness ==
  /\ RoundTripDone
  /\ calc.px = <<1, 77, 254, 255>>
  /\ calc.lab = RgbToLab(1, 77, 254)
  /\ calc.lab[2] # 0
  /\ Len(calc.assigned) = 3

ToneFunctions ==
  {"applyExposure", "applyContrast", "applySaturation", "applyScurveTonemap",
   "labToRgb", "rgbToLab"}

\* C20: for parameters within the documented ranges, every value a tone step
\* or labToRgb assigns to a channel is already an integer from 0 to 255, so
\* the buffer holds exactly the assigned value, and the ditherer's working
\* colour lies within 0 to 255.
C20_StepsClampTheirOwnValues ==
  calc.pc = "returned" =>
    /\ calc.fn \in ToneFunctions =>
         /\ \A c \in 1..Len(calc.assigned) :
              /\ calc.assigned[c] \in 0..255
              /\ calc.stored[c] = calc.assigned[c]
         /\ calc.assigned = <<>> => calc.stored = calc.px
         /\ \A c \in 1..3 : calc.stored[c] \in 0..255
         /\ calc.stored[4] = calc.px[4]
    /\ calc.fn = "workingColour" =>
         \A c \in 1..3 :
           /\ calc.assigned[c] >= 0
           /\ calc.assigned[c] <= 255 * ErrUnit

\* Exposure 2.0 on a pixel with channels above 127: the product exceeds 255
\* and the assigned value is 255.
C20_Witness ==
  /\ calc.pc = "returned"
  /\ calc.fn = "applyExposure"
  /\ calc.args.exposure = 200
  /\ calc.px = <<255, 128, 77, 255>>
  /\ calc.assigned = <<255, 255, 154>>

\* ------------------------------------------------------------------------
\* Properties of the palette search: ties
\* ------------------------------------------------------------------------
Minimisers(colour, method, paletteArray) ==
  LET d == DistancesTo(colour, method, paletteArray)
  IN {slot \in ActiveSlots : \A other \in ActiveSlots : d[slot] <= d[other]}

\* C21: findClosestColor returns the lowest index among the active slots
\* that are at the minimum distance from the colour, under both metrics.
C21_LowestIndexWinsTies ==
  match.pc = "returned" =>
    LET nearest == Minimisers(match.colour, match.method, match.paletteArray)
    IN /\ match.result \in nearest
       /\ \A slot \in nearest : match.result <= slot

\* A call in which slots 3 and 5, and no other, are nearest: 3 is returned.
C21_Witness ==
  /\ match.pc = "returned"
  /\ Minimisers(match.colour, match.method, match.paletteArray) = {3, 5}
  /\ match.result = 3

\* ------------------------------------------------------------------------
\* Properties of the error diffusion
\* ------------------------------------------------------------------------
RECURSIVE SeqSum(_)
SeqSum(seq) == IF seq = <<>> THEN 0 ELSE Head(seq) + SeqSum(Tail(seq))

Kernel == DiffusionMatrixOf(DitherAlgorithmOf(params))

\* The error of the i-th visited pixel on channel c, in units: its working
\* colour minus the perceived palette's colour at the chosen index.
PerceivedError(i, c) ==
  work[i][c] - PaletteToArray(palette.perceived)[chosen[i] + 1][c] * ErrUnit

\* The share of that error that kernel entry k carries.
ShareOf(i, k, c) == RoundDiv(PerceivedError(i, c) * Kernel[k][3], Kernel[k][4])

\* Whether entry k, applied at the i-th pixel, points at the pixel (x, y).
PointsAt(i, k, x, y) ==
  /\ ((i - 1) % width) + Kernel[k][1] = x
  /\ ((i - 1) \div width) + Kernel[k][2] = y

\* What the i-th pixel contributes to the cell of pixel (x, y).
Contribution(i, x, y, c) ==
  SeqSum([k \in 1..Len(Kernel) |->
            IF PointsAt(i, k, x, y) THEN ShareOf(i, k, c) ELSE 0])

Diffusing == ~skipDithering /\ pc \in {"dither", "put", "done"}

\* C22: the accumulator holds, in every cell and channel, the sum of the
\* shares of the errors of the pixels visited so far, each error being the
\* clamped working colour minus the PERCEIVED palette's colour at the chosen
\* index, whichever palette the written colour came from.
C22_ErrorFromPerceivedEntry ==
  Diffusing =>
    /\ \A i \in 1..Len(work), c \in 1..3 :
         /\ work[i][c] >= 0
         /\ work[i][c] <= 255 * ErrUnit
    /\ \A x \in 0..(width - 1), y \in 0..(height - 1), c \in 1..3 :
         errors[y * width + x + 1][c] =
           SeqSum([i \in 1..Len(work) |-> Contribution(i, x, y, c)])

\* Default output (theoretical colours are written), two pixels visited, and
\* the first pixel's error differs from what the written colour would give.
C22_Witness ==
  /\ Diffusing
  /\ ~usePerceivedOutput
  /\ Len(work) >= 2
  /\ \E c \in 1..3 :
       /\ PerceivedError(1, c) # 0
       /\ PerceivedError(1, c) # work[1][c] - data[1][c] * ErrUnit
  /\ \E p \in 1..Len(errors) : errors[p] # <<0, 0, 0>>

\* C23: in one step of the loop, at pixel (x, y), the cell of pixel (cx, cy)
\* grows by exactly the shares of the entries with x+dx = cx and y+dy = cy;
\* an entry pointing outside the image changes no cell, whatever its flat
\* index, and every other cell keeps its value.
C23_SharesStayInBounds ==
  [][(pc = "dither" /\ pos' = pos + 1) =>
       \A cx \in 0..(width - 1), cy \in 0..(height - 1), c \in 1..3 :
         errors'[cy * width + cx + 1][c] =
           errors[cy * width + cx + 1][c]
             + SeqSum([k \in 1..Len(Kernel) |->
                         IF /\ (pos % width) + Kernel[k][1] = cx
                            /\ (pos \div width) + Kernel[k][2] = cy
                           THEN RoundDiv((work'[pos + 1][c]
                                   - ditherPaletteArray[chosen'[pos + 1] + 1][c]
                                       * ErrUnit) * Kernel[k][3], Kernel[k][4])
                           ELSE 0])]_vars

\* The right-hand pixel of the first row of a 2 x 2 image has been visited
\* with a non-zero error: its right neighbour is outside, and the flat index
\* of that neighbour is the cell of pixel (0, 1).
C23_Witness ==
  /\ pc = "dither"
  /\ width = 2
  /\ height = 2
  /\ pos = 2
  /\ \E c \in 1..3 : PerceivedError(2, c) # 0
  /\ \E c \in 1..3 : errors[3][c] # 0

\* -------------------------------------------------------------------------
\* The raster scan of applyErrorDiffusionDither
\* -------------------------------------------------------------------------

\* processImage is one synchronous call: each statement of it, and each
\* iteration of the bounded for loops, runs as soon as the one before it
\* has ended, so a step that can be taken is taken.
\* The runs looked at are the ones of the pipeline with the measured palette
\* handed in and the canvas output asked for in perceived colours.
InitRun ==
  /\ Init
  /\ palette = SPECTRA6
  /\ usePerceivedOutput

\* The place the call has reached: the statement and the loop index.
Place == <<pc, pos>>

\* The call moves on to another place. Every step of Next does, and some
\* step of Next can be taken from every place but the two where the call
\* has ended, so fairness on Advance is fairness on Next.
Advance ==
  /\ pc \notin {"done", "thrown"}
  /\ pc' \in {"preprocess", "dither_init", "dither", "put", "done", "thrown"}
  /\ pos' \in 0..(width * height)

SpecRun == InitRun /\ [][Next]_vars /\ WF_Place(Advance)

\* Every offset of the kernel points at a cell that comes later in raster
\* order: a lower row, or the same row further right.
ForwardOnly(kernel) ==
  \A k \in 1..Len(kernel) :
    kernel[k][2] > 0 \/ (kernel[k][2] = 0 /\ kernel[k][1] > 0)

\* The dithering has started and its kernel can be iterated.
Scanning ==
  /\ ~skipDithering
  /\ IsIterable(DitherAlgorithmOf(params))
  /\ pc \in {"dither", "put", "done"}

\* The pixels visited so far are exactly the first pos pixels in raster
\* order, one visit each, and after the loop that is every pixel.
VisitedInOrder ==
  Scanning =>
    /\ Len(work) = pos
    /\ Len(chosen) = pos
    /\ pos <= width * height
    /\ pc \in {"put", "done"} => pos = width * height

\* A step of the loop visits the pixel right after the last one visited,
\* writes that pixel and no other, and leaves the accumulated error of the
\* visited pixels and of the pixel being visited as it was.
VisitStep ==
  (Scanning /\ Scanning') =>
    /\ pos' \in {pos, pos + 1}
    /\ pos' = pos => (data' = data /\ errors' = errors)
    /\ \A i \in 1..(width * height) :
         /\ i # pos + 1 => data'[i] = data[i]
         /\ i <= pos + 1 => errors'[i] = errors[i]

\* C24: dithering visits every pixel exactly once in raster order (left to
\* right in a row, rows top to bottom) and then ends; every offset of every
\* kernel has dy > 0, or dy = 0 and dx > 0, so error is only added to cells
\* not visited yet, a pixel's accumulated error is final when the pixel is
\* quantized, and a pixel that has been written is never written again.
C24_RasterScanVisitsEachPixelOnce ==
  /\ [](\A name \in KernelNames : ForwardOnly(DiffusionMatrixOf(name)))
  /\ []VisitedInOrder
  /\ [][VisitStep]_vars
  /\ (~skipDithering /\ IsIterable(DitherAlgorithmOf(params)))
       ~> (pc = "done" /\ Len(chosen) = width * height)

\* A 2 x 2 image dithered with the stucki kernel to the end: the last pixel
\* was quantized with error passed on by the pixels before it.
C24_Witness ==
  /\ Scanning
  /\ pc = "done"
  /\ width = 2
  /\ height = 2
  /\ DitherAlgorithmOf(params) = "stucki"
  /\ Len(chosen) = 4
  /\ errors[4] # <<0, 0, 0>>

\* -------------------------------------------------------------------------
\* The kernel tables and the shares of one pixel, in the arithmetic of
\* JavaScript numbers
\*
\* A weight is the IEEE 754 double the table's n / d evaluates to, a share is
\* the double errR * weight, and a cell of the accumulator (a plain array
\* here: no Float32Array narrows it) is the double the += leaves. A double
\* that is not negative is held exactly, as its whole part followed by
\* FracLimbs limbs of LimbBits bits of its fraction. Rounding is to nearest,
\* ties to even, and symmetric in the sign, so errors that are not negative
\* stand for both signs.
\* -------------------------------------------------------------------------
MantissaBits == 53
LimbBits == 15
FracLimbs == 4
LimbBase == 2 ^ LimbBits
AllBits == (1 + FracLimbs) * LimbBits
LimbIndex == 1..(1 + FracLimbs)

\* The whole number n.
Whole(n) == [l \in LimbIndex |-> IF l = 1 THEN n ELSE 0]

RECURSIVE Carry(_, _, _)
\* The limbs from l upward brought below LimbBase, the excess carried up.
Carry(n, l, carry) ==
  IF l = 1 THEN [n EXCEPT ![1] = @ + carry]
  ELSE Carry([n EXCEPT ![l] = (@ + carry) % LimbBase], l - 1,
             (n[l] + carry) \div LimbBase)

\* The exact sum of two numbers, and the exact product by a whole number.
LimbAdd(a, b) == Carry([l \in LimbIndex |-> a[l] + b[l]], 1 + FracLimbs, 0)
LimbTimes(a, n) == Carry([l \in LimbIndex |-> a[l] * n], 1 + FracLimbs, 0)

RECURSIVE LimbLeqFrom(_, _, _)
LimbLeqFrom(a, b, l) ==
  IF l > 1 + FracLimbs THEN TRUE
  ELSE IF a[l] # b[l] THEN a[l] < b[l]
  ELSE LimbLeqFrom(a, b, l + 1)

LimbLeq(a, b) == LimbLeqFrom(a, b, 1)

\* Bit j of a number, counted from the top bit of the whole part.
Bit(n, j) ==
  LET l == ((j - 1) \div LimbBits) + 1
      s == LimbBits - 1 - ((j - 1) % LimbBits)
  IN (n[l] \div (2 ^ s)) % 2

\* The double nearest to a number (sticky: the number has a part below its
\* last limb): the MantissaBits leading bits, rounded to nearest, a tie to
\* the even neighbour.
RoundToDouble(n, sticky) ==
  IF \A j \in 1..AllBits : Bit(n, j) = 0 THEN n
  ELSE LET lead == CHOOSE j \in 1..AllBits :
                     Bit(n, j) = 1 /\ \A i \in 1..(j - 1) : Bit(n, i) = 0
           cut == lead + MantissaBits
       IN IF cut > AllBits THEN n
          ELSE LET guard == Bit(n, cut) = 1
                   rest == sticky \/ \E j \in (cut + 1)..AllBits : Bit(n, j) = 1
                   odd == Bit(n, cut - 1) = 1
                   kept == [l \in LimbIndex |->
                              IF l * LimbBits < cut THEN n[l]
                              ELSE IF (l - 1) * LimbBits + 1 >= cut THEN 0
                              ELSE n[l] - (n[l] % (2 ^ (l * LimbBits - (cut - 1))))]
                   ulp == [l \in LimbIndex |->
                             IF l = ((cut - 2) \div LimbBits) + 1
                             THEN 2 ^ (LimbBits - 1 - ((cut - 2) % LimbBits))
                             ELSE 0]
               IN IF guard /\ (rest \/ odd) THEN LimbAdd(kept, ulp) ELSE kept

RECURSIVE Remainder(_, _, _)
\* What is left of num / den after k limbs of the fraction.
Remainder(num, den, k) ==
  IF k = 0 THEN num % den
  ELSE (Remainder(num, den, k - 1) * LimbBase) % den

\* num / den cut after the last limb.
Quotient(num, den) ==
  [l \in LimbIndex |->
     IF l = 1 THEN num \div den
     ELSE (Remainder(num, den, l - 2) * LimbBase) \div den]

\* A weight read as its numerator, the division left out.
NumeratorOf(num, den) == Whole(num)

\* The weight of a table entry: the double of n / d.
DoubleOf(num, den) ==
  RoundToDouble(Quotient(num, den), Remainder(num, den, FracLimbs) # 0)

\* errR * weight for a whole error, and the += of the accumulator.
DoubleTimes(weight, err) == RoundToDouble(LimbTimes(weight, err), FALSE)
DoubleAdd(a, b) == RoundToDouble(LimbAdd(a, b), FALSE)

\* The cell count of the accumulator the kernel loop is run on: wide and
\* high enough for the pixel in the middle of the top row to have every
\* neighbour of every kernel inside.
DiffuseW == 5
DiffuseH == 3

\* Quantization errors of a first pixel: whole numbers of levels.
WholeErrors == {0, 1, 3, 64, 100, 255}

\* The kernel loop of applyErrorDiffusionDither (cli.js 820-830) run on its
\* own for one channel of the pixel (x, 0) of an accumulator of zeros.
InitDiffuse ==
  /\ PipelineIdle
  /\ MatchIdle
  /\ BmpIdle
  /\ PvIdle
  /\ EntryIdle
  /\ HeapIdle
  /\ FrameIdle
  /\ \E name \in KernelNames, x \in {2, DiffuseW - 1}, e \in WholeErrors :
       calc = [pc |-> "kernel", fn |-> "diffuse", algorithm |-> name,
               x |-> x, y |-> 0, err |-> e, k |-> 1,
               cells |-> [i \in 1..(DiffuseW * DiffuseH) |-> Whole(0)]]

\* for (const [dx, dy, weight] of diffusionMatrix) { ... }: one entry.
DiffuseEntry ==
  /\ calc.pc = "kernel"
  /\ calc.k <= Len(DiffusionMatrixOf(calc.algorithm))
  /\ LET entry_ == DiffusionMatrixOf(calc.algorithm)[calc.k]
         nx == calc.x + entry_[1]
         ny == calc.y + entry_[2]
         nextIdx == ny * DiffuseW + nx + 1
         weight == DoubleOf(entry_[3], entry_[4])
     IN calc' = [calc EXCEPT
                   !.k = @ + 1,
                   !.cells = IF InBounds(nx, ny, DiffuseW, DiffuseH)
                             THEN [@ EXCEPT ![nextIdx] =
                                     DoubleAdd(@, DoubleTimes(weight, calc.err))]
                             ELSE @]
  /\ CalcUnchanged

\* The kernel has no entry left.
DiffuseReturn ==
  /\ calc.pc = "kernel"
  /\ calc.k > Len(DiffusionMatrixOf(calc.algorithm))
  /\ calc' = [calc EXCEPT !.pc = "returned"]
  /\ CalcUnchanged

NextDiffuse ==
  \/ DiffuseEntry
  \/ DiffuseReturn

SpecDiffuse == InitDiffuse /\ [][NextDiffuse]_vars

\* -------------------------------------------------------------------------
\* Properties of the kernel tables
\* -------------------------------------------------------------------------
\* The exact sum of a sequence of numbers: limb by limb, then the carries.
LimbSum(seq) ==
  Carry([l \in LimbIndex |-> SeqSum([k \in 1..Len(seq) |-> seq[k][l]])],
        1 + FracLimbs, 0)

\* The exact sum of the weights of a kernel as the table holds them.
WeightSum(name) ==
  LimbSum([k \in 1..Len(DIFFUSION_MATRICES[name]) |->
             DoubleOf(DIFFUSION_MATRICES[name][k][3],
                      DIFFUSION_MATRICES[name][k][4])])

\* 2^-f
FractionBit(f) ==
  [l \in LimbIndex |->
     IF l = ((f - 1) \div LimbBits) + 2
     THEN 2 ^ (LimbBits - 1 - ((f - 1) % LimbBits))
     ELSE 0]

\* Entry counts and denominators of the four tables, no offset twice in a
\* table, and the numerators of a table adding up to its denominator.
KernelTablesAsStated ==
  /\ DOMAIN DIFFUSION_MATRICES = KernelNames
  /\ \A name \in KernelNames :
       LET kernel == DIFFUSION_MATRICES[name]
           count == CASE name = "floyd-steinberg" -> 4
                      [] name = "stucki" -> 12
                      [] name = "burkes" -> 7
                      [] name = "sierra" -> 10
           den == CASE name = "floyd-steinberg" -> 16
                    [] name = "stucki" -> 42
                    [] name = "burkes" -> 32
                    [] name = "sierra" -> 32
       IN /\ Len(kernel) = count
          /\ \A k \in 1..count : kernel[k][4] = den /\ kernel[k][3] > 0
          /\ \A j, k \in 1..count :
               j # k => <<kernel[j][1], kernel[j][2]>> # <<kernel[k][1], kernel[k][2]>>
          /\ SeqSum([k \in 1..count |-> kernel[k][3]]) = den

\* The loop has ended for a pixel all of whose neighbours are inside.
PassedOnInside ==
  /\ calc.pc = "returned"
  /\ \A k \in 1..Len(DiffusionMatrixOf(calc.algorithm)) :
       InBounds(calc.x + DiffusionMatrixOf(calc.algorithm)[k][1],
                calc.y + DiffusionMatrixOf(calc.algorithm)[k][2],
                DiffuseW, DiffuseH)

\* What the loop added to the accumulator, all cells together.
PassedOn == LimbSum([i \in 1..(DiffuseW * DiffuseH) |-> calc.cells[i]])

ExposureThenContrast(c) ==
  LET exposed == IF params.exposure = Num(100) THEN c
                 ELSE ExposureValue(c, params.exposure[1])
  IN IF params.contrast = Num(100) THEN exposed
     ELSE ContrastValue(exposed, params.contrast[1])

\* preprocessImage has run in contrast mode with numbers for exposure and
\* contrast, saturation 1.0 and no compression of the dynamic range.
ExposureAndContrastOnly ==
  /\ Preprocessed
  /\ ToneModeOf(params) = "contrast"
  /\ IsDefined(params.exposure)
  /\ IsDefined(params.contrast)
  /\ params.saturation = Num(100)
  /\ ~params.compressDynamicRange

\* C26 as stated: the exposure step and the contrast step are skipped only
\* for the multiplier 1.0; for every other multiplier, 0 included, exposure
\* replaces each R, G, B value c by min(255, round(c * exposure)) and
\* contrast replaces each value c by clamp(round((c - 128) * contrast + 128),
\* 0, 255).  The code also skips either step for the multiplier 0.
C26_StepsSkippedOnlyForOne ==
  ExposureAndContrastOnly =>
    \A i \in 1..Len(adjusted) :
      adjusted[i] = MapRGB(source[i], ExposureThenContrast)

\* applyScurveTonemap has returned from a call with strength and shadowBoost
\* inside their documented ranges, 0.0 to 1.0 each, ends included.
ScurveReturnedInRange ==
  /\ calc.pc = "returned"
  /\ calc.fn = "applyScurveTonemap"
  /\ calc.args.strength \in 0..100
  /\ calc.args.shadowBoost \in 0..100

\* C27 as stated: for every strength and shadowBoost within 0.0-1.0 the
\* shadow exponent 1 - strength * shadowBoost is strictly greater than 0, a
\* channel value of 0 is mapped to 0 and 255 to 255.  With strength 1.0 and
\* shadowBoost 1.0 the exponent is 0, Math.pow(0, 0) is 1, and 0 is mapped
\* to round(midpoint * 255).
C27_ShadowExponentPositive ==
  ScurveReturnedInRange =>
    /\ 10000 - calc.args.strength * calc.args.shadowBoost > 0
    /\ \A c \in 1..3 :
         /\ calc.px[c] = 0 => calc.stored[c] = 0
         /\ calc.px[c] = 255 => calc.stored[c] = 255

\* The buffer after step 1 of preprocessImage.
Exposed ==
  IF Truthy(params.exposure) /\ params.exposure # Num(100)
  THEN ApplyExposure(source, params.exposure[1])
  ELSE source

\* The buffer after step 2, computed from the buffer after step 1.
Saturated ==
  IF params.saturation # Num(100)
  THEN ApplySaturation(Exposed, params.saturation)
  ELSE Exposed

\* The two tone formulas, each applied to the buffer after step 2.
ContrastToned ==
  IF Truthy(params.contrast) /\ params.contrast # Num(100)
  THEN ApplyContrast(Saturated, params.contrast[1])
  ELSE Saturated

ScurveToned ==
  ApplyScurveTonemap(Saturated, params.strength, params.shadowBoost,
                     params.highlightCompress, params.midpoint)

\* The buffer after step 3.
Toned ==
  CASE params.toneMode \in {"contrast", ""} -> ContrastToned
    [] params.toneMode = "scurve" -> ScurveToned

InPipeline == pc # "idle"

\* C29: no tone or dithering step writes the alpha byte or changes width,
\* height or the length of the buffer; after preprocessImage and after
\* applyErrorDiffusionDither every pixel's alpha is the value it had on
\* entry.
C29_AlphaAndSizeKept ==
  /\ [](InPipeline =>
          /\ Len(data) = width * height
          /\ Len(source) = width * height
          /\ \A i \in 1..Len(data) : data[i][4] = source[i][4]
          /\ Preprocessed =>
               /\ Len(adjusted) = width * height
               /\ \A i \in 1..Len(adjusted) : adjusted[i][4] = source[i][4])
  /\ [][width' = width /\ height' = height /\ Len(data') = Len(data)]_vars

\* A half-transparent pixel has gone through the tone steps with the
\* dynamic range compressed and through the dithering, its colour has been
\* replaced, and the run has ended.
C29_Witness ==
  /\ pc = "done"
  /\ ~skipDithering
  /\ params.compressDynamicRange
  /\ \E i \in 1..Len(data) :
       /\ source[i] = Crimson
       /\ adjusted[i] # source[i]
       /\ RGBOf(data[i]) # RGBOf(adjusted[i])
       /\ data[i][4] = 128

\* A field as the verbose log reports it: params.field ?? 1.0
OrNeutral(f) == IF IsDefined(f) THEN f ELSE Num(100)

\* The params object with its absent multipliers filled in with 1.0.
WithNeutralValues(p) ==
  [p EXCEPT !.exposure = OrNeutral(@), !.saturation = OrNeutral(@),
            !.contrast = OrNeutral(@)]

\* The params object given to processImage leaves a multiplier out.
PartialParams ==
  \/ ~IsDefined(params.exposure)
  \/ ~IsDefined(params.saturation)
  \/ ~IsDefined(params.contrast)

\* C30 as stated: when the params object omits a field the step behaves as
\* with the field's neutral value, so with saturation absent the saturation
\* step leaves every pixel unchanged, as absent exposure and contrast leave
\* their steps skipped, and no coloured pixel is turned into black.  With
\* saturation absent the code calls applySaturation(imageData, undefined),
\* every channel of a coloured pixel is computed as NaN and stored as 0.
C30_AbsentFieldsAreNeutral ==
  (Preprocessed /\ PartialParams) =>
    /\ adjusted = PreprocessImage(source, WithNeutralValues(params),
                                  palette.perceived)
    /\ \A i \in 1..Len(adjusted) :
         RGBOf(source[i]) # <<0, 0, 0>> => RGBOf(adjusted[i]) # <<0, 0, 0>>

====
